---- MODULE Spec2Model ----
(***************************************************************************)
(* A model of the unified resource search of mcp-server-kubernetes         *)
(* (src/src/tools/kubectl-unified-search.ts): one invocation of            *)
(* kubectlUnifiedSearch against a cluster whose listing calls may fail.    *)
(*                                                                         *)
(* Strings of the program are sequences of one-character strings, so that  *)
(* includes, startsWith, split, toLowerCase and the regular expressions    *)
(* are computed as the code computes them.  Kind names and enum values,    *)
(* which the code only compares for equality, are TLA+ strings.            *)
(* Numbers that may be fractional (limit) are integers in units of         *)
(* 1/Scale; scores are fractions <<numerator, denominator>>.               *)
(***************************************************************************)
EXTENDS Integers, Sequences, FiniteSets, TLC

(***************************************************************************)
(* Bounds of the model.                                                    *)
(***************************************************************************)
\* limit is drawn from -1 .. MaxLimit in steps of 1/Scale (and "not given")
MaxLimit == 3
\* a number n of the program is the integer n * Scale of the model
Scale == 2
\* namespaces per batch; the code's batchSize is 50 (line 453), scaled down
\* so that a search over a handful of namespaces runs through several batches
BatchSize == 2

(***************************************************************************)
(* Arithmetic helpers.                                                     *)
(***************************************************************************)
Min2(a, b) == IF a <= b THEN a ELSE b
Max2(a, b) == IF a >= b THEN a ELSE b
Abs(a) == IF a < 0 THEN -a ELSE a

\* ToIntegerOrInfinity of a scaled number: truncation towards zero
Trunc(x) == IF x >= 0 THEN x \div Scale ELSE -((-x) \div Scale)

(***************************************************************************)
(* JavaScript string operations on character sequences.                    *)
(***************************************************************************)
UpperToLower == ("A" :> "a") @@ ("B" :> "b") @@ ("D" :> "d") @@ ("E" :> "e") @@ ("K" :> "k") @@ ("N" :> "n") @@ ("O" :> "o") @@ ("P" :> "p") @@ ("R" :> "r") @@ ("S" :> "s") @@ ("V" :> "v") @@ ("W" :> "w")

LowerChar(c) == IF c \in DOMAIN UpperToLower THEN UpperToLower[c] ELSE c

\* String.prototype.toLowerCase
ToLowerCase(s) == [i \in 1..Len(s) |-> LowerChar(s[i])]

\* sub occurs in s at position i
OccursAt(s, sub, i) == /\ i + Len(sub) - 1 <= Len(s)
                       /\ \A k \in 1..Len(sub) : s[i + k - 1] = sub[k]

\* String.prototype.includes
Includes(s, sub) == \E i \in 1..(Len(s) - Len(sub) + 1) : OccursAt(s, sub, i)

\* String.prototype.startsWith
StartsWith(s, prefix) == OccursAt(s, prefix, 1)

WhiteSpace == {" ", "\t", "\n"}

RECURSIVE TrimStart(_)
TrimStart(s) == IF s # <<>> /\ Head(s) \in WhiteSpace THEN TrimStart(Tail(s)) ELSE s

RECURSIVE TrimEnd(_)
TrimEnd(s) == IF s # <<>> /\ s[Len(s)] \in WhiteSpace THEN TrimEnd(SubSeq(s, 1, Len(s) - 1)) ELSE s

\* String.prototype.trim
Trim(s) == TrimEnd(TrimStart(s))

\* String.prototype.split on a set of one-character separators
\* (split('.'), split('-'), split(/[-_\s]/)): empty pieces are kept
RECURSIVE SplitFrom(_, _, _)
SplitFrom(s, seps, i) ==
    LET at == {p \in i..Len(s) : s[p] \in seps}
        next == IF at = {} THEN Len(s) + 1 ELSE CHOOSE p \in at : \A q \in at : p <= q
        piece == SubSeq(s, i, next - 1)
    IN IF next > Len(s) THEN <<piece>> ELSE <<piece>> \o SplitFrom(s, seps, next + 1)

Split(s, seps) == SplitFrom(s, seps, 1)

\* String.prototype.replace with a global pattern that matches the literal
\* text `from`: left to right, without rescanning what was inserted
RECURSIVE ReplaceFrom(_, _, _, _)
ReplaceFrom(s, from, to, i) ==
    IF i > Len(s) THEN <<>>
    ELSE IF OccursAt(s, from, i) THEN to \o ReplaceFrom(s, from, to, i + Len(from))
    ELSE <<s[i]>> \o ReplaceFrom(s, from, to, i + 1)

ReplaceAll(s, from, to) == ReplaceFrom(s, from, to, 1)

\* Array.prototype.join of strings
RECURSIVE Join(_, _)
Join(pieces, sep) ==
    IF pieces = <<>> THEN <<>>
    ELSE IF Len(pieces) = 1 THEN pieces[1]
    ELSE pieces[1] \o sep \o Join(Tail(pieces), sep)

Range(seq) == {seq[i] : i \in 1..Len(seq)}

(***************************************************************************)
(* Regular expressions, as far as the code builds them: an atom is a       *)
(* literal character, an escaped character or the wildcard `.`, and an     *)
(* atom may carry a `*`.  The flag 'i' makes literals case-insensitive.    *)
(***************************************************************************)
\* the source text of the expression, parsed into <<atom, starred>> tokens
RECURSIVE ParseRegex(_, _)
ParseRegex(src, i) ==
    IF i > Len(src) THEN <<>>
    ELSE LET escaped == src[i] = "\\" /\ i < Len(src)
             atom == IF escaped THEN [kind |-> "lit", ch |-> src[i + 1]]
                     ELSE IF src[i] = "." THEN [kind |-> "any", ch |-> "."]
                     ELSE [kind |-> "lit", ch |-> src[i]]
             next == IF escaped THEN i + 2 ELSE i + 1
             starred == next <= Len(src) /\ src[next] = "*"
         IN <<[atom |-> atom, star |-> starred]>> \o ParseRegex(src, IF starred THEN next + 1 ELSE next)

AtomMatches(atom, c) == atom.kind = "any" \/ LowerChar(atom.ch) = LowerChar(c)

\* the tokens from t on match a prefix of s that starts at position p
RECURSIVE MatchHere(_, _, _, _)
MatchHere(tokens, t, s, p) ==
    IF t > Len(tokens) THEN TRUE
    ELSE IF tokens[t].star
         THEN \/ MatchHere(tokens, t + 1, s, p)
              \/ /\ p <= Len(s)
                 /\ AtomMatches(tokens[t].atom, s[p])
                 /\ MatchHere(tokens, t, s, p + 1)
         ELSE /\ p <= Len(s)
              /\ AtomMatches(tokens[t].atom, s[p])
              /\ MatchHere(tokens, t + 1, s, p + 1)

\* RegExp.prototype.test of an unanchored expression
RegexTest(src, s) == LET tokens == ParseRegex(src, 1)
                     IN \E p \in 1..(Len(s) + 1) : MatchHere(tokens, 1, s, p)

\* the wildcard rewriting of getTargetNamespaces, searchNamespaces and
\* deepSearchResources: four replace calls in the order of the code
WildcardToRegex(pattern) ==
    LET step1 == ReplaceAll(pattern, <<"*">>, <<".", "*">>)
        step2 == ReplaceAll(step1, <<"?">>, <<".">>)
        step3 == ReplaceAll(step2, <<".">>, <<"\\", ".">>)
        step4 == ReplaceAll(step3, <<".", "*">>, <<".", "*">>)
    IN step4

(***************************************************************************)
(* levenshteinDistance: the matrix of the code, filled row by row.  A row  *)
(* is the sequence of its cells, cell i (from 0) at index i + 1.           *)
(***************************************************************************)
Min3(a, b, c) == Min2(a, Min2(b, c))

RECURSIVE LevCells(_, _, _, _)
LevCells(prev, cur, str1, c2) ==
    IF Len(cur) = Len(str1) + 1 THEN cur
    ELSE LET i == Len(cur)
             indicator == IF str1[i] = c2 THEN 0 ELSE 1
             cell == Min3(cur[i] + 1, prev[i + 1] + 1, prev[i] + indicator)
         IN LevCells(prev, Append(cur, cell), str1, c2)

\* the rows from j on; a row is never empty, and the test of it has TLC
\* compute each row before it enters the next
RECURSIVE LevRows(_, _, _, _)
LevRows(prev, str1, str2, j) ==
    IF j > Len(str2) \/ prev = <<>> THEN prev
    ELSE LevRows(LevCells(prev, <<j>>, str1, str2[j]), str1, str2, j + 1)

\* the positions at which the strings differ, and the difference in length
levenshteinDistance_positional(str1, str2) ==
    Cardinality({p \in 1..Min2(Len(str1), Len(str2)) : str1[p] # str2[p]}) + Abs(Len(str1) - Len(str2))

levenshteinDistance(str1, str2) ==
    LevRows([i \in 1..(Len(str1) + 1) |-> i - 1], str1, str2, 1)[Len(str1) + 1]

(***************************************************************************)
(* Text constants of the code.                                             *)
(***************************************************************************)
str_eq == <<"=">>
str_star == <<"*">>
str_qmark == <<"?">>
str_dash == <<"-">>
str_underscore == <<"_">>
str_metadata_dot == <<"m", "e", "t", "a", "d", "a", "t", "a", ".">>
str_status_dot == <<"s", "t", "a", "t", "u", "s", ".">>
str_spec_dot == <<"s", "p", "e", "c", ".">>
str_kube_dash == <<"k", "u", "b", "e", "-">>
str_openshift_dash == <<"o", "p", "e", "n", "s", "h", "i", "f", "t", "-">>
str_dev == <<"d", "e", "v">>
str_prod == <<"p", "r", "o", "d">>
str_test == <<"t", "e", "s", "t">>
str_demo == <<"d", "e", "m", "o">>
str_pod == <<"p", "o", "d">>
str_container == <<"c", "o", "n", "t", "a", "i", "n", "e", "r">>
str_service == <<"s", "e", "r", "v", "i", "c", "e">>
str_svc == <<"s", "v", "c">>
str_deploy == <<"d", "e", "p", "l", "o", "y">>
str_app == <<"a", "p", "p">>
str_job == <<"j", "o", "b">>
\* what String(value) gives for a value that is an object
str_object_Object == <<"[", "o", "b", "j", "e", "c", "t", " ", "O", "b", "j", "e", "c", "t", "]">>

\* systemNamespaces of getTargetNamespaces
systemNamespaces == {<<"k", "u", "b", "e", "-", "s", "y", "s", "t", "e", "m">>, <<"k", "u", "b", "e", "-", "p", "u", "b", "l", "i", "c">>, <<"k", "u", "b", "e", "-", "n", "o", "d", "e", "-", "l", "e", "a", "s", "e">>, <<"d", "e", "f", "a", "u", "l", "t">>, <<"k", "u", "b", "e", "r", "n", "e", "t", "e", "s", "-", "d", "a", "s", "h", "b", "o", "a", "r", "d">>, <<"i", "n", "g", "r", "e", "s", "s", "-", "n", "g", "i", "n", "x">>, <<"c", "e", "r", "t", "-", "m", "a", "n", "a", "g", "e", "r">>, <<"m", "o", "n", "i", "t", "o", "r", "i", "n", "g">>, <<"l", "o", "g", "g", "i", "n", "g">>, <<"i", "s", "t", "i", "o", "-", "s", "y", "s", "t", "e", "m">>, <<"l", "i", "n", "k", "e", "r", "d">>}

(***************************************************************************)
(* Scores are fractions <<n, d>> with d > 0.                               *)
(***************************************************************************)
Score(n, d) == <<n, d>>
ScoreGE(a, b) == a[1] * b[2] >= b[1] * a[2]
ScoreGT(a, b) == a[1] * b[2] > b[1] * a[2]
ScoreEQ(a, b) == a[1] * b[2] = b[1] * a[2]
ScoreTimes(a, b) == <<a[1] * b[1], a[2] * b[2]>>

\* a matchReason: the text of the code with its ${...} holes, and what fills
\* the hole (the distance of a fuzzy match is the match's distance field)
Reason(template, arg) == [template |-> template, arg |-> arg]

(***************************************************************************)
(* determineSearchStrategy and getFuzzyConfig.                             *)
(***************************************************************************)
\* the wildcard test first, the selector test second
determineSearchStrategy_wildcardFirst(query, searchMode) ==
    IF searchMode # "auto" THEN [type |-> searchMode, selector |-> query]
    ELSE IF Includes(query, str_star) \/ Includes(query, str_qmark)
         THEN [type |-> "exact", selector |-> query]
    ELSE IF Includes(query, str_eq)
         THEN IF \/ Includes(query, str_metadata_dot)
                 \/ Includes(query, str_status_dot)
                 \/ Includes(query, str_spec_dot)
              THEN [type |-> "fields", selector |-> query]
              ELSE [type |-> "labels", selector |-> query]
    ELSE [type |-> "fuzzy", selector |-> query]

determineSearchStrategy(query, searchMode) ==
    IF searchMode # "auto" THEN [type |-> searchMode, selector |-> query]
    ELSE IF Includes(query, str_eq)
         THEN IF \/ Includes(query, str_metadata_dot)
                 \/ Includes(query, str_status_dot)
                 \/ Includes(query, str_spec_dot)
              THEN [type |-> "fields", selector |-> query]
              ELSE [type |-> "labels", selector |-> query]
    ELSE IF Includes(query, str_star) \/ Includes(query, str_qmark)
         THEN [type |-> "exact", selector |-> query]
    ELSE [type |-> "fuzzy", selector |-> query]

getFuzzyConfig(tolerance) ==
    CASE tolerance = "strict" -> [maxDistance |-> 1, minScore |-> Score(8, 10)]
      [] tolerance = "loose" -> [maxDistance |-> 4, minScore |-> Score(2, 10)]
      [] OTHER -> [maxDistance |-> 2, minScore |-> Score(4, 10)]

(***************************************************************************)
(* prioritizeNamespaces and prioritizeResourceTypes.                       *)
(***************************************************************************)
IsPrioritizedNamespace(namespace, queryLower) ==
    LET namespaceLower == ToLowerCase(namespace)
        Both(token) == Includes(queryLower, token) /\ Includes(namespaceLower, token)
    IN \/ Includes(namespaceLower, queryLower)
       \/ Both(str_dev) \/ Both(str_prod) \/ Both(str_test) \/ Both(str_demo)

\* only the namespaces that contain the query are moved to the front
prioritizeNamespaces_queryOnly(namespaces, query) ==
    LET queryLower == ToLowerCase(query)
        High(ns) == Includes(ToLowerCase(ns), queryLower)
        Low(ns) == ~Includes(ToLowerCase(ns), queryLower)
    IN SelectSeq(namespaces, High) \o SelectSeq(namespaces, Low)

prioritizeNamespaces(namespaces, query) ==
    LET queryLower == ToLowerCase(query)
        High(ns) == IsPrioritizedNamespace(ns, queryLower)
        Low(ns) == ~IsPrioritizedNamespace(ns, queryLower)
    IN SelectSeq(namespaces, High) \o SelectSeq(namespaces, Low)

\* priority[rt] after the forEach and the four boosts: the index of the last
\* occurrence of rt in resourceTypes, unless a boost overwrote it
KindPriority(resourceTypes, queryLower, rt) ==
    LET Has(token) == Includes(queryLower, token)
        last == CHOOSE i \in 1..Len(resourceTypes) :
                    /\ resourceTypes[i] = rt
                    /\ \A j \in (i + 1)..Len(resourceTypes) : resourceTypes[j] # rt
    IN IF rt = "pods" /\ (Has(str_pod) \/ Has(str_container)) THEN -10
       ELSE IF rt = "services" /\ (Has(str_service) \/ Has(str_svc)) THEN -9
       ELSE IF rt = "deployments" /\ (Has(str_deploy) \/ Has(str_app)) THEN -8
       ELSE IF rt = "jobs" /\ Has(str_job) THEN -7
       ELSE IF rt = "cronjobs" /\ Has(str_job) THEN -6
       ELSE last - 1

\* Array.prototype.sort is stable: an element goes after the elements that
\* compare smaller and after the earlier elements that compare equal.
\* greater[a, b] says that the comparator is positive for seq[a], seq[b].
StableSort(seq, greater) ==
    LET n == Len(seq)
        Before(a) == {b \in 1..n : \/ greater[a, b]
                                   \/ (~greater[b, a] /\ b < a)}
    IN [at \in 1..n |-> seq[CHOOSE a \in 1..n : Cardinality(Before(a)) = at - 1]]

prioritizeResourceTypes(resourceTypes, query) ==
    LET queryLower == ToLowerCase(query)
        Priority(a) == KindPriority(resourceTypes, queryLower, resourceTypes[a])
    IN StableSort(resourceTypes, [a, b \in 1..Len(resourceTypes) |-> Priority(a) - Priority(b) > 0])

(***************************************************************************)
(* A resource is what the listing call returns for one object:             *)
(*   name, creationTimestamp   metadata.name, metadata.creationTimestamp   *)
(*   labels, annotations       sequences of <<key, value>> in the order of *)
(*                             Object.entries (an absent mapping and an    *)
(*                             empty one behave alike in every use)        *)
(*   extra                     the status/spec leaves, <<path, text>>      *)
(* A SearchResult has the fields of the interface of that name.            *)
(***************************************************************************)
str_metadata == <<"m", "e", "t", "a", "d", "a", "t", "a">>
str_name == <<"n", "a", "m", "e">>
str_labels == <<"l", "a", "b", "e", "l", "s">>

\* the string-valued leaves of the object, each with its path of keys
Leaves(resource) ==
    {<< <<str_metadata, str_name>>, resource.name >>}
    \cup {<< <<str_metadata, str_labels, resource.labels[i][1]>>, resource.labels[i][2] >> : i \in 1..Len(resource.labels)}
    \cup resource.extra

IsProperPrefix(p, q) == Len(p) < Len(q) /\ SubSeq(q, 1, Len(p)) = p

\* getFieldValue: path.split('.').reduce((current, key) => current?.[key], obj)
getFieldValue(obj, path) ==
    LET keys == Split(path, {"."})
        leaves == Leaves(obj)
    IN IF \E l \in leaves : l[1] = keys
       THEN [kind |-> "string", text |-> (CHOOSE l \in leaves : l[1] = keys)[2]]
       ELSE IF \E l \in leaves : IsProperPrefix(keys, l[1])
       THEN [kind |-> "object", text |-> str_object_Object]
       ELSE [kind |-> "undefined", text |-> <<>>]

\* a value in a condition: undefined and the empty string are falsy
Truthy(value) == value.kind = "object" \/ (value.kind = "string" /\ value.text # <<>>)

\* `${key}=${value}`
LabelText(label) == label[1] \o str_eq \o label[2]

\* the label text compared as it is written, not lowercased
FirstLabelHit_caseSensitive(labels, queryLower) ==
    LET hits == {i \in 1..Len(labels) : Includes(LabelText(labels[i]), queryLower)}
    IN IF hits = {} THEN 0 ELSE CHOOSE i \in hits : \A j \in hits : i <= j

\* the first label whose lowercased text contains the query, 0 when none: the
\* loops over Object.entries(resource.metadata.labels) stop at the first hit
FirstLabelHit(labels, queryLower) ==
    LET hits == {i \in 1..Len(labels) : Includes(ToLowerCase(LabelText(labels[i])), queryLower)}
    IN IF hits = {} THEN 0 ELSE CHOOSE i \in hits : \A j \in hits : i <= j

Match(score, reason, distance) == [score |-> score, reason |-> reason, distance |-> distance]

\* matches.reduce((best, current) => current.score > best.score ? current : best)
RECURSIVE BestOf(_, _)
BestOf(best, rest) ==
    IF rest = <<>> THEN best
    ELSE BestOf(IF ScoreGT(Head(rest).score, best.score) THEN Head(rest) ELSE best, Tail(rest))

\* score >= searchConfig.minScore for score = 1 - distance / longest, as the
\* doubles of the code decide it: the exact comparison, except that
\* 1 - 4/5 is 0.19999999999999996 and so below the 0.2 of "loose" (for the
\* distances the tolerances admit, 0..4, no other quotient rounds across a
\* threshold)
ScoreAtLeast(distance, longest, minScore) ==
    /\ ScoreGE(Score(longest - distance, longest), minScore)
    /\ ~(distance * 5 = longest * 4 /\ distance > 0 /\ ScoreEQ(minScore, Score(2, 10)))

\* words.map(w => w[0]).join(''): an empty word gives nothing
RECURSIVE Acronym(_)
Acronym(words) ==
    IF words = <<>> THEN <<>>
    ELSE (IF Head(words) = <<>> THEN <<>> ELSE <<Head(words)[1]>>) \o Acronym(Tail(words))

\* every rule tried on the resource, whatever the rules before it found
FuzzyMatches_ungated(resource, queryLower, searchConfig, includeLabels) ==
    LET resourceName == ToLowerCase(resource.name)
        lengthDiff == Abs(Len(queryLower) - Len(resourceName))
        distance == levenshteinDistance(queryLower, resourceName)
        longest == Max2(Len(queryLower), Len(resourceName))
        score == Score(longest - distance, longest)
        byDistance ==
            IF /\ lengthDiff <= searchConfig.maxDistance
               /\ distance <= searchConfig.maxDistance
               /\ ScoreAtLeast(distance, longest, searchConfig.minScore)
            THEN <<Match(ScoreTimes(score, Score(9, 10)), Reason("fuzzy name match (distance: ${distance})", <<>>), distance)>>
            ELSE <<>>
        words == Split(resourceName, {"-", "_"} \cup WhiteSpace)
        byWord ==
            IF /\ (Includes(resourceName, str_dash) \/ Includes(resourceName, str_underscore))
               /\ \E i \in 1..Len(words) : Includes(words[i], queryLower)
            THEN <<Match(Score(8, 10), Reason("word boundary match in name", <<>>), 0)>>
            ELSE <<>>
        dashWords == Split(resourceName, {"-"})
        byAcronym ==
            IF /\ Includes(resourceName, str_dash)
               /\ Len(queryLower) <= 4
               /\ Len(dashWords) > 1
               /\ Includes(Acronym(dashWords), queryLower)
            THEN <<Match(Score(6, 10), Reason("acronym match", <<>>), 0)>>
            ELSE <<>>
        hit == FirstLabelHit(resource.labels, queryLower)
        byLabel ==
            IF includeLabels /\ hit # 0
            THEN <<Match(Score(7, 10), Reason("label match (${key}=${value})", LabelText(resource.labels[hit])), 0)>>
            ELSE <<>>
    IN byDistance \o byWord \o byAcronym \o byLabel

\* the fuzzy branch of deepSearchResources for one resource: the matches array
FuzzyMatches(resource, queryLower, searchConfig, includeLabels) ==
    LET resourceName == ToLowerCase(resource.name)
        lengthDiff == Abs(Len(queryLower) - Len(resourceName))
        distance == levenshteinDistance(queryLower, resourceName)
        longest == Max2(Len(queryLower), Len(resourceName))
        score == Score(longest - distance, longest)
        byDistance ==
            IF /\ lengthDiff <= searchConfig.maxDistance
               /\ distance <= searchConfig.maxDistance
               /\ ScoreAtLeast(distance, longest, searchConfig.minScore)
            THEN <<Match(ScoreTimes(score, Score(9, 10)), Reason("fuzzy name match (distance: ${distance})", <<>>), distance)>>
            ELSE <<>>
        words == Split(resourceName, {"-", "_"} \cup WhiteSpace)
        byWord ==
            IF /\ byDistance = <<>>
               /\ (Includes(resourceName, str_dash) \/ Includes(resourceName, str_underscore))
               /\ \E i \in 1..Len(words) : Includes(words[i], queryLower)
            THEN <<Match(Score(8, 10), Reason("word boundary match in name", <<>>), 0)>>
            ELSE <<>>
        dashWords == Split(resourceName, {"-"})
        byAcronym ==
            IF /\ byDistance \o byWord = <<>>
               /\ Includes(resourceName, str_dash)
               /\ Len(queryLower) <= 4
               /\ Len(dashWords) > 1
               /\ Includes(Acronym(dashWords), queryLower)
            THEN <<Match(Score(6, 10), Reason("acronym match", <<>>), 0)>>
            ELSE <<>>
        hit == FirstLabelHit(resource.labels, queryLower)
        byLabel ==
            IF byDistance \o byWord \o byAcronym = <<>> /\ includeLabels /\ hit # 0
            THEN <<Match(Score(7, 10), Reason("label match (${key}=${value})", LabelText(resource.labels[hit])), 0)>>
            ELSE <<>>
    IN byDistance \o byWord \o byAcronym \o byLabel

\* the selector read as path=value: the value at path is searched for value
MatchesOf_pathValue(resource, query, strategy, searchConfig, includeLabels, includeAnnotations) ==
    LET queryLower == ToLowerCase(query)
        resourceName == ToLowerCase(resource.name)
        pieces == Split(strategy.selector, {"="})
        value == IF Len(pieces) > 1 THEN Join(Tail(pieces), str_eq) ELSE query
    IN IF strategy.type = "labels"
       THEN LET hit == FirstLabelHit(resource.labels, queryLower)
            IN IF hit # 0
               THEN <<Match(Score(1, 1), Reason("label match (${key}=${value})", LabelText(resource.labels[hit])), 0)>>
               ELSE <<>>
       ELSE IF strategy.type = "fields"
       THEN LET fieldValue == getFieldValue(resource, pieces[1])
            IN IF Truthy(fieldValue) /\ Includes(ToLowerCase(fieldValue.text), ToLowerCase(value))
               THEN <<Match(Score(1, 1), Reason("field match (${strategy.selector})", strategy.selector), 0)>>
               ELSE <<>>
       ELSE IF strategy.type = "exact"
       THEN IF RegexTest(WildcardToRegex(strategy.selector), resourceName)
            THEN <<Match(Score(1, 1), Reason("exact pattern match", <<>>), 0)>>
            ELSE <<>>
       ELSE FuzzyMatches(resource, queryLower, searchConfig, includeLabels)

\* the body of the loop of deepSearchResources for one resource: the matches
\* array at the end of the strategy branches
MatchesOf(resource, query, strategy, searchConfig, includeLabels, includeAnnotations) ==
    LET queryLower == ToLowerCase(query)
        resourceName == ToLowerCase(resource.name)
    IN IF strategy.type = "labels"
       THEN LET hit == FirstLabelHit(resource.labels, queryLower)
            IN IF hit # 0
               THEN <<Match(Score(1, 1), Reason("label match (${key}=${value})", LabelText(resource.labels[hit])), 0)>>
               ELSE <<>>
       ELSE IF strategy.type = "fields"
       THEN LET fieldValue == getFieldValue(resource, strategy.selector)
            IN IF Truthy(fieldValue) /\ Includes(ToLowerCase(fieldValue.text), queryLower)
               THEN <<Match(Score(1, 1), Reason("field match (${strategy.selector})", strategy.selector), 0)>>
               ELSE <<>>
       ELSE IF strategy.type = "exact"
       THEN IF RegexTest(WildcardToRegex(strategy.selector), resourceName)
            THEN <<Match(Score(1, 1), Reason("exact pattern match", <<>>), 0)>>
            ELSE <<>>
       ELSE FuzzyMatches(resource, queryLower, searchConfig, includeLabels)

SearchResult(resource, resourceType, namespace, match) ==
    [resource |-> resource, resourceType |-> resourceType, namespace |-> namespace,
     matchScore |-> match.score, matchReason |-> match.reason, levenshteinDistance |-> match.distance]

\* deepSearchResources: maxResults is a scaled number
RECURSIVE DeepLoop(_, _, _, _, _, _, _, _, _, _)
DeepLoop(resources, results, resourceType, namespace, query, strategy, searchConfig, includeLabels, includeAnnotations, maxResults) ==
    IF resources = <<>> \/ Len(results) * Scale >= maxResults THEN results
    ELSE LET matches == MatchesOf(Head(resources), query, strategy, searchConfig, includeLabels, includeAnnotations)
             found == IF matches = <<>> THEN results
                      ELSE Append(results, SearchResult(Head(resources), resourceType, namespace, BestOf(Head(matches), Tail(matches))))
         IN DeepLoop(Tail(resources), found, resourceType, namespace, query, strategy, searchConfig, includeLabels, includeAnnotations, maxResults)

deepSearchResources(resources, resourceType, namespace, query, strategy, searchConfig, includeLabels, includeAnnotations, maxResults) ==
    DeepLoop(resources, <<>>, resourceType, namespace, query, strategy, searchConfig, includeLabels, includeAnnotations, maxResults)

\* quickScanResources: maxResults is a scaled number
RECURSIVE QuickLoop(_, _, _, _, _, _)
QuickLoop(resources, results, resourceType, namespace, queryLower, maxResults) ==
    IF resources = <<>> \/ Len(results) * Scale >= maxResults THEN results
    ELSE LET resource == Head(resources)
             found == IF Includes(ToLowerCase(resource.name), queryLower)
                      THEN Append(results, SearchResult(resource, resourceType, namespace,
                                       Match(Score(1, 1), Reason("exact substring match in name", <<>>), 0)))
                      ELSE results
         IN QuickLoop(Tail(resources), found, resourceType, namespace, queryLower, maxResults)

\* a scan that accepts a name only when it begins with the query
quickScanResources_prefixOnly(resources, resourceType, namespace, queryLower, maxResults) ==
    LET Hit(resource) == StartsWith(ToLowerCase(resource.name), queryLower)
        hits == SelectSeq(resources, Hit)
        taken == Min2(Len(hits), Max2(0, (maxResults + Scale - 1) \div Scale))
    IN [n \in 1..taken |-> SearchResult(hits[n], resourceType, namespace,
                               Match(Score(1, 1), Reason("exact substring match in name", <<>>), 0))]

quickScanResources(resources, resourceType, namespace, queryLower, maxResults) ==
    QuickLoop(resources, <<>>, resourceType, namespace, queryLower, maxResults)

(***************************************************************************)
(* sortResults.  localeCompare orders by the collation rank of the         *)
(* characters (punctuation, then digits, then letters, case ignored at     *)
(* this level), a shorter string before its extensions.                    *)
(***************************************************************************)
CollationOrder == <<" ", "_", "-", ",", "?", ".", "*", "=", "/", "0", "1", "2", "3", "4", "5", "6", "7", "8", "9", "a", "b", "c", "d", "e", "f", "g", "h", "i", "j", "k", "l", "m", "n", "o", "p", "q", "r", "s", "t", "u", "v", "w", "x", "y", "z">>

CollationRank(c) ==
    LET lower == LowerChar(c)
        at == {i \in 1..Len(CollationOrder) : CollationOrder[i] = lower}
    IN IF at = {} THEN 0 ELSE CHOOSE i \in at : TRUE

\* a.localeCompare(b) > 0
RECURSIVE LocaleGreater(_, _)
LocaleGreater(a, b) ==
    IF a = <<>> THEN FALSE
    ELSE IF b = <<>> THEN TRUE
    ELSE IF CollationRank(Head(a)) # CollationRank(Head(b)) THEN CollationRank(Head(a)) > CollationRank(Head(b))
    ELSE LocaleGreater(Tail(a), Tail(b))

\* the list as it was accumulated
sortResults_asAccumulated(results, sortBy) == results

sortResults(results, sortBy) ==
    LET at == 1..Len(results)
        ByName(a, b) == LocaleGreater(a.resource.name, b.resource.name)
        ByAge(a, b) == b.resource.creationTimestamp - a.resource.creationTimestamp > 0
        ByNamespace(a, b) == LocaleGreater(a.namespace, b.namespace)
        ByScore(a, b) == ScoreGT(b.matchScore, a.matchScore)
    IN CASE sortBy = "name" -> StableSort(results, [a, b \in at |-> ByName(results[a], results[b])])
         [] sortBy = "age" -> StableSort(results, [a, b \in at |-> ByAge(results[a], results[b])])
         [] sortBy = "namespace" -> StableSort(results, [a, b \in at |-> ByNamespace(results[a], results[b])])
         [] OTHER -> StableSort(results, [a, b \in at |-> ByScore(results[a], results[b])])

SliceToLimit_uncut(results, limit) == results

\* results.slice(0, limit) for a scaled limit
SliceToLimit(results, limit) ==
    LET relativeEnd == Trunc(limit)
        final == IF relativeEnd < 0 THEN Max2(Len(results) + relativeEnd, 0)
                 ELSE Min2(relativeEnd, Len(results))
    IN SubSeq(results, 1, final)

\* more than the limit, not the limit itself
LimitReached_strict(results, limit) == Len(results) * Scale > limit

\* results.length >= limit for a scaled limit
LimitReached(results, limit) == Len(results) * Scale >= limit

(***************************************************************************)
(* getTargetNamespaces, after the listing call has returned allNamespaces. *)
(***************************************************************************)
IsSystemNamespace(ns) ==
    \/ ns \in systemNamespaces
    \/ StartsWith(ns, str_kube_dash)
    \/ StartsWith(ns, str_openshift_dash)

FilterNamespaces_keepDefault(allNamespaces, namespacePattern, excludeSystemNamespaces) ==
    LET NotSystem(ns) == ~StartsWith(ns, str_kube_dash)
        Matches(ns) == RegexTest(WildcardToRegex(namespacePattern), ns)
        kept == IF excludeSystemNamespaces THEN SelectSeq(allNamespaces, NotSystem) ELSE allNamespaces
    IN IF namespacePattern # <<>> THEN SelectSeq(kept, Matches) ELSE kept

\* lines 246-275: the exclusion of system namespaces, then namespacePattern
FilterNamespaces(allNamespaces, namespacePattern, excludeSystemNamespaces) ==
    LET NotSystem(ns) == ~IsSystemNamespace(ns)
        Matches(ns) == RegexTest(WildcardToRegex(namespacePattern), ns)
        kept == IF excludeSystemNamespaces THEN SelectSeq(allNamespaces, NotSystem) ELSE allNamespaces
    IN IF namespacePattern # <<>> THEN SelectSeq(kept, Matches) ELSE kept

\* lines 230-232: a non-empty explicit list is returned as it is (the caller
\* passes no maxNamespaces)
ExplicitNamespaces_filtered(namespaces, namespacePattern, excludeSystemNamespaces) ==
    FilterNamespaces(namespaces, namespacePattern, excludeSystemNamespaces)

ExplicitNamespaces(namespaces, namespacePattern, excludeSystemNamespaces) == namespaces

(***************************************************************************)
(* searchNamespaces (lines 281-351): defined by the code, called nowhere.  *)
(***************************************************************************)
NamespaceMatches(namespace, queryLower, strategy, searchConfig) ==
    LET namespaceLower == ToLowerCase(namespace)
        distance == levenshteinDistance(queryLower, namespaceLower)
        longest == Max2(Len(queryLower), Len(namespaceLower))
        bySubstring == IF Includes(namespaceLower, queryLower)
                       THEN <<Match(Score(1, 1), Reason("exact substring match", <<>>), 0)>>
                       ELSE <<>>
        byDistance == IF distance <= searchConfig.maxDistance /\ ScoreAtLeast(distance, longest, searchConfig.minScore)
                      THEN <<Match(Score(longest - distance, longest), Reason("fuzzy match (distance: ${distance})", <<>>), distance)>>
                      ELSE <<>>
    IN IF strategy.type = "fuzzy" THEN bySubstring \o byDistance
       ELSE IF strategy.type = "exact" /\ RegexTest(WildcardToRegex(strategy.selector), namespace)
       THEN <<Match(Score(1, 1), Reason("pattern match", <<>>), 0)>>
       ELSE <<>>

RECURSIVE searchNamespaces(_, _, _, _)
searchNamespaces(query, namespaces, strategy, searchConfig) ==
    IF namespaces = <<>> THEN <<>>
    ELSE LET matches == NamespaceMatches(Head(namespaces), ToLowerCase(query), strategy, searchConfig)
             rest == searchNamespaces(query, Tail(namespaces), strategy, searchConfig)
         IN IF matches = <<>> THEN rest
            ELSE <<[name |-> Head(namespaces), resourceType |-> "namespace", namespace |-> Head(namespaces),
                    matchScore |-> BestOf(Head(matches), Tail(matches)).score,
                    matchReason |-> BestOf(Head(matches), Tail(matches)).reason,
                    levenshteinDistance |-> BestOf(Head(matches), Tail(matches)).distance]>> \o rest

(***************************************************************************)
(* The cluster the search runs against: what `kubectl get namespaces`      *)
(* prints, and what each (kind, namespace) listing call returns when it    *)
(* succeeds.  Names are unique inside a (kind, namespace), as in a cluster.*)
(***************************************************************************)
ns_default == <<"d", "e", "f", "a", "u", "l", "t">>
ns_kube_system == <<"k", "u", "b", "e", "-", "s", "y", "s", "t", "e", "m">>
ns_kube_flannel == <<"k", "u", "b", "e", "-", "f", "l", "a", "n", "n", "e", "l">>
ns_prod == <<"p", "r", "o", "d">>
ns_dev == <<"d", "e", "v">>

name_webapp_1 == <<"w", "e", "b", "a", "p", "p", "-", "1">>
name_my_webapp_svc == <<"m", "y", "-", "w", "e", "b", "a", "p", "p", "-", "s", "v", "c">>
name_backend == <<"b", "a", "c", "k", "e", "n", "d">>
name_webap == <<"w", "e", "b", "a", "p">>
name_w_a == <<"w", "-", "a">>
name_api == <<"a", "p", "i">>
name_webapp == <<"w", "e", "b", "a", "p", "p">>
name_webapp_svc == <<"w", "e", "b", "a", "p", "p", "-", "s", "v", "c">>
name_webapp_2 == <<"w", "e", "b", "a", "p", "p", "-", "2">>
name_coredns == <<"c", "o", "r", "e", "d", "n", "s">>
name_redis_cache == <<"r", "e", "d", "i", "s", "-", "c", "a", "c", "h", "e">>

\* creation times are hours on a clock that now reads Now; an object created
\* before Yesterday is older than the 24 hours of `recent`
Now == 24 + 24
Yesterday == Now - 24

PhaseRunning == {<< <<<<"s", "t", "a", "t", "u", "s">>, <<"p", "h", "a", "s", "e">>>>, <<"R", "u", "n", "n", "i", "n", "g">> >>}

Resource(name, labels, created, extra) ==
    [name |-> name, labels |-> labels, annotations |-> <<>>, creationTimestamp |-> created, extra |-> extra]

\* the config maps of dev: eleven whose names begin with cfg, six of them with
\* cfg-a and five with cfg-b, all labelled like: web.cfg-a.ca; two named
\* web-0 and web-1; and one whose label x holds the text metadata.labels.x
ConfigMaps ==
    LET like == << <<<<"l", "i", "k", "e">>, <<"w", "e", "b", ".", "c", "f", "g", "-", "a", ".", "c", "a">>>> >>
        Cfg(letter, digit) == Resource(<<"c", "f", "g", "-", letter, digit>>, like, 50, {})
        digits == <<"0", "1", "2", "3", "4", "5">>
    IN [n \in 1..6 |-> Cfg("a", digits[n])] \o [n \in 1..5 |-> Cfg("b", digits[n])]
       \o <<Resource(<<"w", "e", "b", "-", "0">>, <<>>, 51, {}),
            Resource(<<"w", "e", "b", "-", "1">>, <<>>, 52, {}),
            Resource(<<"p", "a", "t", "h", "s">>,
                     << <<<<"x">>, <<"m", "e", "t", "a", "d", "a", "t", "a", ".", "l", "a", "b", "e", "l", "s", ".", "x">>>> >>, 53, {})>>

ClusterNamespaces == <<ns_default, ns_kube_system, ns_kube_flannel, ns_prod, ns_dev>>

\* the namespaces as objects: what a listing call for the kind "namespaces"
\* returns, whatever namespace it names (the kind is cluster-scoped)
NamespaceObjects == [i \in 1..Len(ClusterNamespaces) |-> Resource(ClusterNamespaces[i], <<>>, i, {})]

ClusterItems(resourceType, namespace) ==
    CASE resourceType = "pods" /\ namespace = ns_prod ->
            <<Resource(name_webapp_1, << <<<<"e", "n", "v">>, <<"p", "r", "o", "d">>>> >>, 10, PhaseRunning),
              Resource(name_my_webapp_svc, <<>>, 30, PhaseRunning),
              Resource(name_backend, <<>>, 20, PhaseRunning)>>
      [] resourceType = "pods" /\ namespace = ns_dev ->
            <<Resource(name_webap, <<>>, 40, PhaseRunning),
              Resource(name_webapp_2, <<>>, 45, PhaseRunning),
              Resource(name_w_a, <<>>, 15, PhaseRunning),
              Resource(name_api, << <<<<"E", "n", "v">>, <<"P", "R", "O", "D">>>> >>, 25, PhaseRunning)>>
      [] resourceType = "pods" /\ namespace = ns_kube_system ->
            <<Resource(name_coredns, << <<<<"e", "n", "v">>, <<"p", "r", "o", "d">>>> >>, 1, PhaseRunning)>>
      [] resourceType = "deployments" /\ namespace = ns_prod ->
            <<Resource(name_webapp, << <<<<"a", "p", "p">>, <<"w", "e", "b", "a", "p", "p">>>> >>, 5, {}),
              [Resource(name_redis_cache, <<>>, 30, {}) EXCEPT
                  !.annotations = << <<<<"o", "w", "n", "e", "r">>, <<"w", "e", "b", "a", "p", "p", "-", "t", "e", "a", "m">>>> >>]>>
      [] resourceType = "services" /\ namespace = ns_prod ->
            <<Resource(name_webapp_svc, <<>>, 6, {})>>
      [] resourceType = "services" /\ namespace = ns_default ->
            <<Resource(name_webapp, <<>>, 2, {})>>
      [] resourceType = "configmaps" /\ namespace = ns_dev -> ConfigMaps
      [] resourceType = "namespaces" -> NamespaceObjects
      [] OTHER -> <<>>

(***************************************************************************)
(* The inputs of an invocation.  A parameter the caller leaves out is a    *)
(* field the record lacks; an absent (or empty) query, namespaces and      *)
(* namespacePattern is the empty sequence, which the code treats alike.    *)
(***************************************************************************)
q_empty == <<>>
q_blank == <<" ", " ">>
q_webapp == <<"w", "e", "b", "a", "p", "p">>
q_env_prod == <<"e", "n", "v", "=", "p", "r", "o", "d">>
q_prod == <<"p", "r", "o", "d">>
q_web_star == <<"w", "e", "b", "*">>
q_wa == <<"w", "a">>
q_phase == <<"s", "t", "a", "t", "u", "s", ".", "p", "h", "a", "s", "e", "=", "R", "u", "n", "n", "i", "n", "g">>

Queries == {q_empty, q_blank, q_webapp, q_env_prod, q_prod, q_web_star, q_wa, q_phase}

\* limit, scaled: -1, ..., MaxLimit in steps of 1/Scale
Limits == (-Scale)..(MaxLimit * Scale)

NoField == <<>>
Opt(name, values) == {name :> v : v \in values} \cup {NoField}

ExplicitNamespaceLists == {<<ns_prod>>, <<ns_kube_system, ns_prod, ns_dev>>}

p_pro_star == <<"p", "r", "o", "*">>
p_none == <<"z", "z">>
p_star_e_star == <<"*", "e", "*">>

Patterns == {p_pro_star, p_none, p_star_e_star}

BaseInput(q) == [query |-> q]

\* the limit against the namespace set and the exclusion of system namespaces
LimitInputs ==
    {BaseInput(q) @@ l @@ n @@ x : q \in Queries, l \in Opt("limit", Limits),
                                   n \in Opt("namespaces", ExplicitNamespaceLists),
                                   x \in Opt("excludeSystemNamespaces", {TRUE})}

\* namespacePattern against the namespace set and the exclusion
PatternInputs ==
    {BaseInput(q) @@ ("namespacePattern" :> p) @@ n @@ x : q \in {q_webapp, q_prod}, p \in Patterns,
                                   n \in Opt("namespaces", ExplicitNamespaceLists),
                                   x \in Opt("excludeSystemNamespaces", {TRUE})}

KindLists == {<<"pods">>, <<"namespaces">>, <<"pods", "namespaces">>, <<"services", "pods">>}

\* the kinds searched, in one namespace or in all
KindInputs ==
    {BaseInput(q) @@ ("resourceTypes" :> rt) @@ n @@ l : q \in {q_webapp, q_prod, q_env_prod, q_wa}, rt \in KindLists,
                                   n \in Opt("namespaces", {<<ns_prod>>}),
                                   l \in Opt("limit", {2 * Scale})}

\* the strategy, the tolerance and the sort key, in two namespaces
ModeInputs ==
    {BaseInput(q) @@ ("namespaces" :> <<ns_dev, ns_prod>>) @@ m @@ t @@ o :
                                   q \in {q_webapp, q_wa},
                                   m \in Opt("searchMode", {"fuzzy", "exact", "labels", "fields"}),
                                   t \in Opt("fuzzyTolerance", {"strict", "loose"}),
                                   o \in Opt("sortBy", {"name", "age", "namespace"})}

\* recent and includeAnnotations, in one namespace
FlagInputs ==
    {BaseInput(q_webapp) @@ ("namespaces" :> <<ns_prod>>) @@ r @@ a :
                                   r \in Opt("recent", {TRUE}),
                                   a \in Opt("includeAnnotations", {TRUE})}

q_web == <<"w", "e", "b">>
q_cfg == <<"c", "f", "g">>
q_cfg_a == <<"c", "f", "g", "-", "a">>
q_cfg_b == <<"c", "f", "g", "-", "b">>
q_ca == <<"c", "a">>
q_label_x == <<"m", "e", "t", "a", "d", "a", "t", "a", ".", "l", "a", "b", "e", "l", "s", ".", "x">>

\* the two scans of one unit with many candidates, under each strategy; a
\* limit reached inside a batch of two namespaces; a namespace named twice;
\* a kind named twice; a query that names kinds and a namespace
ScanInputs ==
    {BaseInput(q) @@ ("resourceTypes" :> <<"configmaps">>) @@ ("namespaces" :> <<ns_dev>>) @@ l @@ t @@ m :
                                   q \in {q_web, q_cfg, q_cfg_a, q_cfg_b, q_ca, q_label_x},
                                   l \in Opt("limit", {3 * Scale}),
                                   t \in Opt("fuzzyTolerance", {"strict"}),
                                   m \in Opt("searchMode", {"labels", "fields"})}
    \cup {BaseInput(q_webapp) @@ ("resourceTypes" :> <<"pods">>) @@ ("namespaces" :> <<ns_dev, ns_prod>>) @@ ("limit" :> 3 * Scale)}
    \cup {BaseInput(q_webapp) @@ ("namespaces" :> <<ns_prod, ns_prod>>)}
    \cup {BaseInput(q_wa) @@ ("resourceTypes" :> <<"pods", "services", "pods">>) @@ ("namespaces" :> <<ns_prod>>)}
    \cup {BaseInput(<<"D", "e", "v", "-", "p", "o", "d", "-", "j", "o", "b", "-", "s", "e", "a", "r", "c", "h">>)
              @@ ("resourceTypes" :> <<"services", "cronjobs", "jobs", "pods", "configmaps">>)
              @@ ("namespaces" :> <<ns_prod, ns_dev>>)}

Inputs == LimitInputs \cup PatternInputs \cup KindInputs \cup ModeInputs \cup FlagInputs \cup ScanInputs

Param(given, name, default) == IF name \in DOMAIN given THEN given[name] ELSE default

\* the destructuring of lines 129-143, with its defaults
Defaults(given) ==
    [query |-> given.query,
     resourceTypes |-> Param(given, "resourceTypes", <<"pods", "deployments", "services">>),
     namespaces |-> Param(given, "namespaces", <<>>),
     namespacePattern |-> Param(given, "namespacePattern", <<>>),
     excludeSystemNamespaces |-> Param(given, "excludeSystemNamespaces", FALSE),
     searchMode |-> Param(given, "searchMode", "auto"),
     fuzzyTolerance |-> Param(given, "fuzzyTolerance", "moderate"),
     limit |-> Param(given, "limit", 20 * Scale),
     includeLabels |-> Param(given, "includeLabels", TRUE),
     includeAnnotations |-> Param(given, "includeAnnotations", FALSE),
     sortBy |-> Param(given, "sortBy", "relevance"),
     recent |-> Param(given, "recent", FALSE)]

(***************************************************************************)
(* The state of one invocation of kubectlUnifiedSearch.                    *)
(***************************************************************************)
VARIABLES
    input,             \* the input object of the invocation
    pc,                \* where the invocation is
    error,             \* the message of the error thrown, <<>> when none
    targetNamespaces,  \* what getTargetNamespaces returned
    strategy,          \* what determineSearchStrategy returned
    kinds,             \* prioritizedResourceTypes of streamingSearch
    spaces,            \* prioritizedNamespaces of streamingSearch
    k,                 \* the index into kinds of the outer loop (from 1)
    i,                 \* the variable i of the batch loop (from 0)
    batch,             \* the calls of the current batch, one per namespace
    results,           \* the accumulator of streamingSearch
    output,            \* the list handed to formatSearchResults
    calls,             \* history: the listing calls issued, in order
    namespaceCalls,    \* history: how many namespace-listing calls were issued
    discovery,         \* history: how the namespace-listing call ended
    failed             \* history: the (kind, namespace) calls that failed

vars == <<input, pc, error, targetNamespaces, strategy, kinds, spaces, k, i, batch, results, output, calls, namespaceCalls, discovery, failed>>

\* at most this many listing calls fail in one invocation
MaxFailures == 1

NoStrategy == [type |-> "none", selector |-> <<>>]

Init ==
    /\ input \in Inputs
    /\ pc = "NotStarted"
    /\ error = <<>>
    /\ targetNamespaces = <<>>
    /\ strategy = NoStrategy
    /\ kinds = <<>>
    /\ spaces = <<>>
    /\ k = 0
    /\ i = 0
    /\ batch = <<>>
    /\ results = <<>>
    /\ output = <<>>
    /\ calls = <<>>
    /\ namespaceCalls = 0
    /\ discovery = "none"
    /\ failed = {}

in == Defaults(input)

QueryIsEmpty_untrimmed(query) == query = <<>>

\* lines 124-127: !input.query || input.query.trim().length === 0
QueryIsEmpty(query) == query = <<>> \/ Len(Trim(query)) = 0

Validate ==
    /\ pc = "NotStarted"
    /\ IF QueryIsEmpty(input.query)
       THEN pc' = "Failed" /\ error' = <<"Search query cannot be empty">>
       ELSE pc' = "Validated" /\ error' = error
    /\ UNCHANGED <<input, targetNamespaces, strategy, kinds, spaces, k, i, batch, results, output, calls, namespaceCalls, discovery, failed>>

\* getTargetNamespaces, lines 230-232: an explicit list, no listing call
ResolveExplicit ==
    /\ pc = "Validated"
    /\ Len(in.namespaces) > 0
    /\ targetNamespaces' = ExplicitNamespaces(in.namespaces, in.namespacePattern, in.excludeSystemNamespaces)
    /\ pc' = "NamespacesResolved"
    /\ UNCHANGED <<input, error, strategy, kinds, spaces, k, i, batch, results, output, calls, namespaceCalls, discovery, failed>>

\* getTargetNamespaces, lines 234-239: kubectl get namespaces is started
ListNamespaces ==
    /\ pc = "Validated"
    /\ Len(in.namespaces) = 0
    /\ namespaceCalls' = namespaceCalls + 1
    /\ discovery' = "pending"
    /\ pc' = "AwaitNamespaces"
    /\ UNCHANGED <<input, error, targetNamespaces, strategy, kinds, spaces, k, i, batch, results, output, calls, failed>>

NamespacesFail_fallback ==
    /\ pc = "AwaitNamespaces"
    /\ targetNamespaces' = <<ns_default>>
    /\ discovery' = "failed"
    /\ pc' = "NamespacesResolved"
    /\ UNCHANGED <<input, error, strategy, kinds, spaces, k, i, batch, results, output, calls, namespaceCalls, failed>>

\* lines 276-278 and 181-183: the call fails, the error is wrapped twice
NamespacesFail ==
    /\ pc = "AwaitNamespaces"
    /\ pc' = "Failed"
    /\ error' = <<"Search failed: ", "Failed to get namespaces: ", "cause">>
    /\ discovery' = "failed"
    /\ UNCHANGED <<input, targetNamespaces, strategy, kinds, spaces, k, i, batch, results, output, calls, namespaceCalls, failed>>

\* lines 241-275: the call returns the names of the cluster's namespaces
NamespacesReturn ==
    /\ pc = "AwaitNamespaces"
    /\ targetNamespaces' = FilterNamespaces(ClusterNamespaces, in.namespacePattern, in.excludeSystemNamespaces)
    /\ discovery' = "returned"
    /\ pc' = "NamespacesResolved"
    /\ UNCHANGED <<input, error, strategy, kinds, spaces, k, i, batch, results, output, calls, namespaceCalls, failed>>

\* lines 155-157: nothing to search
NoNamespaces ==
    /\ pc = "NamespacesResolved"
    /\ Len(targetNamespaces) = 0
    /\ output' = <<>>
    /\ pc' = "Ranked"
    /\ UNCHANGED <<input, error, targetNamespaces, strategy, kinds, spaces, k, i, batch, results, calls, namespaceCalls, discovery, failed>>

\* lines 159-161 and 451-459: the strategy and the two prioritized lists
BeginSearch ==
    /\ pc = "NamespacesResolved"
    /\ Len(targetNamespaces) > 0
    /\ strategy' = determineSearchStrategy(in.query, in.searchMode)
    /\ spaces' = prioritizeNamespaces(targetNamespaces, in.query)
    /\ kinds' = prioritizeResourceTypes(in.resourceTypes, in.query)
    /\ k' = 1
    /\ results' = <<>>
    /\ pc' = "ForEachKind"
    /\ UNCHANGED <<input, error, targetNamespaces, i, batch, output, calls, namespaceCalls, discovery, failed>>

\* lines 461-465: the next kind, unless the limit is reached
StartKind ==
    /\ pc = "ForEachKind"
    /\ k <= Len(kinds)
    /\ ~LimitReached(results, in.limit)
    /\ i' = 0
    /\ pc' = "ForEachBatch"
    /\ UNCHANGED <<input, error, targetNamespaces, strategy, kinds, spaces, k, batch, results, output, calls, namespaceCalls, discovery, failed>>

\* lines 461-462 and 530: no kind is left, or the limit is reached
KindsDone ==
    /\ pc = "ForEachKind"
    /\ (k > Len(kinds) \/ LimitReached(results, in.limit))
    /\ pc' = "LimitReachedOrExhausted"
    /\ UNCHANGED <<input, error, targetNamespaces, strategy, kinds, spaces, k, i, batch, results, output, calls, namespaceCalls, discovery, failed>>

\* one promise of batchPromises: order is history, the place of the call among
\* the completions of its batch (0 while it is pending)
Slot(namespace) == [namespace |-> namespace, state |-> "pending", failed |-> FALSE, order |-> 0, results |-> <<>>]

\* lines 465-473: the calls of the next batch are started, one per namespace
IssueBatch ==
    /\ pc = "ForEachBatch"
    /\ i < Len(spaces)
    /\ ~LimitReached(results, in.limit)
    /\ LET namespaces == SubSeq(spaces, i + 1, Min2(i + BatchSize, Len(spaces)))
       IN /\ batch' = [n \in 1..Len(namespaces) |-> Slot(namespaces[n])]
          /\ calls' = calls \o [n \in 1..Len(namespaces) |-> <<kinds[k], namespaces[n]>>]
    /\ pc' = "Fetching"
    /\ UNCHANGED <<input, error, targetNamespaces, strategy, kinds, spaces, k, i, results, output, namespaceCalls, discovery, failed>>

\* lines 465-466 and 528-529: the batches of this kind are done
BatchesDone ==
    /\ pc = "ForEachBatch"
    /\ (i >= Len(spaces) \/ LimitReached(results, in.limit))
    /\ IF LimitReached(results, in.limit)
       THEN pc' = "LimitReachedOrExhausted" /\ k' = k
       ELSE pc' = "ForEachKind" /\ k' = k + 1
    /\ UNCHANGED <<input, error, targetNamespaces, strategy, kinds, spaces, i, batch, results, output, calls, namespaceCalls, discovery, failed>>

\* line 473: the arguments streamingSearch gives getResourcesWithPreFilter,
\* and so the selectors of the command of lines 569-577; `recent` is a
\* parameter of streamingSearch that its body never reads
ListingArguments(resourceType, namespace, recent) ==
    [resourceType |-> resourceType, namespace |-> namespace,
     labelSelector |-> "undefined", fieldSelector |-> "undefined"]

\* getResourcesWithPreFilter, lines 568-590: the items, [] on any failure
getResourcesWithPreFilter_partial(resourceType, namespace, ok) ==
    ClusterItems(resourceType, namespace)

getResourcesWithPreFilter(resourceType, namespace, ok) ==
    IF ok THEN ClusterItems(resourceType, namespace) ELSE <<>>

\* the deep scan over every resource of the listing, accepted or not
NamespaceResults_deepOnAll(resources, resourceType, namespace, acc) ==
    IF Len(resources) = 0 THEN <<>>
    ELSE LET quickMatches == quickScanResources(resources, resourceType, namespace, ToLowerCase(in.query),
                                                Min2(10 * Scale, in.limit - Len(acc) * Scale))
             deepMatches == deepSearchResources(resources, resourceType, namespace, in.query, strategy,
                                                getFuzzyConfig(in.fuzzyTolerance), in.includeLabels, in.includeAnnotations,
                                                Min2(3 * Scale, in.limit - Len(acc) * Scale - Len(quickMatches) * Scale))
         IN IF Len(quickMatches) < 5 /\ Len(quickMatches) < Len(resources)
            THEN quickMatches \o deepMatches
            ELSE quickMatches

\* the budget of the deep scan without what the quick scan took of it
NamespaceResults_wholeBudget(resources, resourceType, namespace, acc) ==
    IF Len(resources) = 0 THEN <<>>
    ELSE LET quickMatches == quickScanResources(resources, resourceType, namespace, ToLowerCase(in.query),
                                                Min2(10 * Scale, in.limit - Len(acc) * Scale))
             Remaining(r) == \A q \in 1..Len(quickMatches) : quickMatches[q].resource.name # r.name
             remainingResources == SelectSeq(resources, Remaining)
             deepMatches == deepSearchResources(remainingResources, resourceType, namespace, in.query, strategy,
                                                getFuzzyConfig(in.fuzzyTolerance), in.includeLabels, in.includeAnnotations,
                                                Min2(3 * Scale, in.limit - Len(acc) * Scale))
         IN IF Len(quickMatches) < 5 /\ Len(quickMatches) < Len(resources)
            THEN quickMatches \o deepMatches
            ELSE quickMatches

\* lines 474-508: the results of one namespace from its resources, with the
\* accumulator as it is while the batch runs
NamespaceResults(resources, resourceType, namespace, acc) ==
    IF Len(resources) = 0 THEN <<>>
    ELSE LET quickMatches == quickScanResources(resources, resourceType, namespace, ToLowerCase(in.query),
                                                Min2(10 * Scale, in.limit - Len(acc) * Scale))
             Remaining(r) == \A q \in 1..Len(quickMatches) : quickMatches[q].resource.name # r.name
             remainingResources == SelectSeq(resources, Remaining)
             deepMatches == deepSearchResources(remainingResources, resourceType, namespace, in.query, strategy,
                                                getFuzzyConfig(in.fuzzyTolerance), in.includeLabels, in.includeAnnotations,
                                                Min2(3 * Scale, in.limit - Len(acc) * Scale - Len(quickMatches) * Scale))
         IN IF Len(quickMatches) < 5 /\ Len(quickMatches) < Len(resources)
            THEN quickMatches \o deepMatches
            ELSE quickMatches

\* lines 471-513: the listing call of one namespace of the batch returns or
\* fails, and the rest of its promise runs
CallCompletes(n, ok) ==
    /\ pc = "Fetching"
    /\ batch[n].state = "pending"
    /\ ok \/ Cardinality(failed) < MaxFailures
    /\ LET resources == getResourcesWithPreFilter(kinds[k], batch[n].namespace, ok)
       IN batch' = [batch EXCEPT ![n] = [namespace |-> batch[n].namespace, state |-> "done", failed |-> ~ok,
                                         order |-> 1 + Cardinality({m \in 1..Len(batch) : batch[m].state = "done"}),
                                         results |-> NamespaceResults(resources, kinds[k], batch[n].namespace, results)]]
    /\ failed' = IF ok THEN failed ELSE failed \cup {<<kinds[k], batch[n].namespace>>}
    /\ UNCHANGED <<input, pc, error, targetNamespaces, strategy, kinds, spaces, k, i, results, output, calls, namespaceCalls, discovery>>

\* the results pushed in the order in which the calls completed
RECURSIVE MergeFrom_completionOrder(_, _, _, _)
MergeFrom_completionOrder(acc, slots, n, limit) ==
    IF n > Len(slots) THEN acc
    ELSE LET pushed == acc \o slots[CHOOSE m \in 1..Len(slots) : slots[m].order = n].results
         IN IF LimitReached(pushed, limit) THEN pushed ELSE MergeFrom_completionOrder(pushed, slots, n + 1, limit)

\* the results of every namespace pushed, whatever the limit
RECURSIVE MergeFrom_all(_, _, _, _)
MergeFrom_all(acc, slots, n, limit) ==
    IF n > Len(slots) THEN acc ELSE MergeFrom_all(acc \o slots[n].results, slots, n + 1, limit)

\* lines 519-522: the results of the namespaces are pushed in the order of
\* the batch, until the limit is reached
RECURSIVE MergeFrom(_, _, _, _)
MergeFrom(acc, slots, n, limit) ==
    IF n > Len(slots) THEN acc
    ELSE LET pushed == acc \o slots[n].results
         IN IF LimitReached(pushed, limit) THEN pushed ELSE MergeFrom(pushed, slots, n + 1, limit)

\* the merge as soon as one call of the batch is done
MergeBatch_firstDone ==
    /\ pc = "Fetching"
    /\ \E n \in 1..Len(batch) : batch[n].state = "done"
    /\ results' = MergeFrom(results, batch, 1, in.limit)
    /\ batch' = <<>>
    /\ IF LimitReached(results', in.limit)
       THEN pc' = "LimitReachedOrExhausted" /\ i' = i
       ELSE pc' = "ForEachBatch" /\ i' = i + BatchSize
    /\ UNCHANGED <<input, error, targetNamespaces, strategy, kinds, spaces, k, output, calls, namespaceCalls, discovery, failed>>

\* the merge without the breaks of lines 525 and 529
MergeBatch_noEarlyExit ==
    /\ pc = "Fetching"
    /\ \A n \in 1..Len(batch) : batch[n].state = "done"
    /\ results' = MergeFrom(results, batch, 1, in.limit)
    /\ batch' = <<>>
    /\ pc' = "ForEachBatch"
    /\ i' = i + BatchSize
    /\ UNCHANGED <<input, error, targetNamespaces, strategy, kinds, spaces, k, output, calls, namespaceCalls, discovery, failed>>

\* a merge that a failed call of the batch keeps from happening
MergeBatch_unlessFailed ==
    /\ pc = "Fetching"
    /\ \A n \in 1..Len(batch) : batch[n].state = "done" /\ ~batch[n].failed
    /\ results' = MergeFrom(results, batch, 1, in.limit)
    /\ batch' = <<>>
    /\ IF LimitReached(results', in.limit)
       THEN pc' = "LimitReachedOrExhausted" /\ i' = i
       ELSE pc' = "ForEachBatch" /\ i' = i + BatchSize
    /\ UNCHANGED <<input, error, targetNamespaces, strategy, kinds, spaces, k, output, calls, namespaceCalls, discovery, failed>>

\* lines 515-526: every call of the batch is done; merge, then the next batch
MergeBatch ==
    /\ pc = "Fetching"
    /\ \A n \in 1..Len(batch) : batch[n].state = "done"
    /\ results' = MergeFrom(results, batch, 1, in.limit)
    /\ batch' = <<>>
    /\ IF LimitReached(results', in.limit)
       THEN pc' = "LimitReachedOrExhausted" /\ i' = i
       ELSE pc' = "ForEachBatch" /\ i' = i + BatchSize
    /\ UNCHANGED <<input, error, targetNamespaces, strategy, kinds, spaces, k, output, calls, namespaceCalls, discovery, failed>>

\* lines 532 and 176-179: cut to the limit, sort, hand to the formatter
Finish ==
    /\ pc = "LimitReachedOrExhausted"
    /\ output' = sortResults(SliceToLimit(results, in.limit), in.sortBy)
    /\ pc' = "Ranked"
    /\ UNCHANGED <<input, error, targetNamespaces, strategy, kinds, spaces, k, i, batch, results, calls, namespaceCalls, discovery, failed>>

Next ==
    \/ Validate
    \/ ResolveExplicit
    \/ ListNamespaces
    \/ NamespacesFail
    \/ NamespacesReturn
    \/ NoNamespaces
    \/ BeginSearch
    \/ StartKind
    \/ KindsDone
    \/ IssueBatch
    \/ BatchesDone
    \/ \E n \in 1..Len(batch), ok \in BOOLEAN : CallCompletes(n, ok)
    \/ MergeBatch
    \/ Finish

Spec == Init /\ [][Next]_vars

\* a call of the batch that has not ended yet
Pending(n) == pc = "Fetching" /\ n <= Len(batch) /\ batch[n].state = "pending"

\* the invocation is one task that runs whenever it can (the await of lines
\* 147, 164 and 516 resumes it), and every call to kubectl ends: execAsync
\* returns, fails or runs into its timeout (lines 236-239 and 579-582).
\* Finish is enabled exactly at LimitReachedOrExhausted and leaves it, and
\* CallCompletes(n, TRUE) is enabled exactly while call n is pending and ends
\* it, so their weak fairness is the recurrence of the complement of the guard
Fairness ==
    /\ WF_vars(Validate \/ ResolveExplicit \/ ListNamespaces \/ NoNamespaces \/ BeginSearch)
    /\ WF_vars(NamespacesFail \/ NamespacesReturn)
    /\ WF_vars(StartKind)
    /\ WF_vars(KindsDone)
    /\ WF_vars(IssueBatch)
    /\ WF_vars(BatchesDone)
    /\ WF_vars(MergeBatch)
    /\ []<>(pc # "LimitReachedOrExhausted")
    /\ \A n \in 1..BatchSize : []<>~Pending(n)

SpecLive == Init /\ [][Next]_vars /\ Fairness

(***************************************************************************)
(* determineSearchStrategy on its own: the queries are the texts of one to *)
(* MaxFragments fragments, among them the characters and the path keywords *)
(* the function looks for.                                                 *)
(***************************************************************************)
MaxFragments == 3

Fragments == {str_eq, str_star, str_qmark, str_metadata_dot, str_status_dot, str_spec_dot,
              str_app, <<"s", "t", "a", "t", "u", "s">>, <<".">>, <<"x">>}

RECURSIVE FragmentTexts(_)
FragmentTexts(n) ==
    IF n = 0 THEN {<<>>}
    ELSE LET shorter == FragmentTexts(n - 1)
         IN shorter \cup {t \o f : t \in shorter, f \in Fragments}

FragmentQueries == FragmentTexts(MaxFragments) \ {<<>>}

InitStrategy ==
    /\ input \in {BaseInput(q) @@ m : q \in FragmentQueries, m \in Opt("searchMode", {"labels"})}
    /\ pc = "Classify"
    /\ error = <<>>
    /\ targetNamespaces = <<>>
    /\ strategy = NoStrategy
    /\ kinds = <<>>
    /\ spaces = <<>>
    /\ k = 0
    /\ i = 0
    /\ batch = <<>>
    /\ results = <<>>
    /\ output = <<>>
    /\ calls = <<>>
    /\ namespaceCalls = 0
    /\ discovery = "none"
    /\ failed = {}

\* line 160
Classify ==
    /\ pc = "Classify"
    /\ strategy' = determineSearchStrategy(in.query, in.searchMode)
    /\ pc' = "Classified"
    /\ UNCHANGED <<input, error, targetNamespaces, kinds, spaces, k, i, batch, results, output, calls, namespaceCalls, discovery, failed>>

NextStrategy == Classify

SpecStrategy == InitStrategy /\ [][NextStrategy]_vars

(***************************************************************************)
(* levenshteinDistance and the wildcard test of deepSearchResources on     *)
(* their own: query is the first string (the query, the pattern), name the *)
(* second (the name compared with it).                                     *)
(***************************************************************************)
MaxText == 3

RECURSIVE Texts(_, _)
Texts(alphabet, n) ==
    IF n = 0 THEN {<<>>}
    ELSE LET shorter == Texts(alphabet, n - 1)
         IN shorter \cup {t \o <<c>> : t \in shorter, c \in alphabet}

\* patterns with '*', '?' and '.', and names they are tested against
WildcardPatterns == {<<"a", "*", "c">>, <<"a", "?", "c">>, <<"a", ".", "c">>, <<"A", "*", "C">>, <<"*", "c">>, <<"a", "c">>}
WildcardNames == {<<"a", "b", "c">>, <<"a", "c">>, <<"a", ".", "c">>, <<"a", "b", "b", "c">>, <<"x", "a", "c", "x">>, <<"A", "B", "C">>, <<"c", "b", "a">>}

TextInputs ==
    {[query |-> a, name |-> b] : a, b \in Texts({"a", "b"}, MaxText)}
    \cup {[query |-> a, name |-> b] : a \in WildcardPatterns, b \in WildcardNames}

InitText ==
    /\ input \in TextInputs
    /\ pc = "Text"
    /\ error = <<>>
    /\ targetNamespaces = <<>>
    /\ strategy = NoStrategy
    /\ kinds = <<>>
    /\ spaces = <<>>
    /\ k = 0
    /\ i = 0
    /\ batch = <<>>
    /\ results = <<>>
    /\ output = <<>>
    /\ calls = <<>>
    /\ namespaceCalls = 0
    /\ discovery = "none"
    /\ failed = {}

\* line 691
Measure ==
    /\ pc = "Text"
    /\ output' = <<levenshteinDistance(input.query, input.name)>>
    /\ pc' = "Measured"
    /\ UNCHANGED <<input, error, targetNamespaces, strategy, kinds, spaces, k, i, batch, results, calls, namespaceCalls, discovery, failed>>

\* lines 640 and 670-678: the pattern against the lowercased name
TestPattern ==
    /\ pc = "Text"
    /\ output' = <<RegexTest(WildcardToRegex(input.query), ToLowerCase(input.name))>>
    /\ pc' = "Tested"
    /\ UNCHANGED <<input, error, targetNamespaces, strategy, kinds, spaces, k, i, batch, results, calls, namespaceCalls, discovery, failed>>

NextText == Measure \/ TestPattern

SpecText == InitText /\ [][NextText]_vars

(***************************************************************************)
(* What the claims speak of.                                               *)
(***************************************************************************)
NoDuplicates(seq) == \A a, b \in 1..Len(seq) : a # b => seq[a] # seq[b]

\* the (kind, namespace) of the m-th step of the two loops of streamingSearch
LoopUnit(m) == <<kinds[((m - 1) \div Len(spaces)) + 1], spaces[((m - 1) % Len(spaces)) + 1]>>

(***************************************************************************)
(* C1.  Original statement: for every input, any limit the schema accepts  *)
(* included, the returned list is no longer than limit.                    *)
(***************************************************************************)
C1_LengthAtMostLimit == pc = "Ranked" => Len(output) * Scale <= in.limit

\* C1, amended: the returned list is no longer than limit when limit >= 0,
\* and is empty when limit is negative.
C1_LengthAtMostLimitOrEmpty == pc = "Ranked" => Len(output) * Scale <= Max2(in.limit, 0)

\* a search whose accumulator outgrew the limit and was cut to it
C1_Witness == pc = "Ranked" /\ Len(output) > 0 /\ Len(results) > Len(output) /\ in.limit > 0

(***************************************************************************)
(* C2.  An empty or whitespace-only query fails with the invalid-query     *)
(* error before any other work: no namespace-listing call, no listing      *)
(* call, no result list.                                                   *)
(***************************************************************************)
C2_EmptyQueryFailsFirst ==
    (input.query = <<>> \/ \A c \in Range(input.query) : c \in WhiteSpace) =>
        /\ pc \in {"NotStarted", "Failed"}
        /\ pc = "Failed" => error = <<"Search query cannot be empty">>
        /\ namespaceCalls = 0
        /\ calls = <<>>
        /\ output = <<>>

C2_Witness == pc = "Failed" /\ input.query = q_blank /\ error = <<"Search query cannot be empty">>

(***************************************************************************)
(* C3.  When namespace discovery is needed and the namespace-listing call  *)
(* fails, the search ends in Failed with one error that carries the cause: *)
(* no listing call is issued, no match list is returned, and no fallback   *)
(* namespace set is used.                                                  *)
(***************************************************************************)
C3_DiscoveryFailureIsFatal ==
    discovery = "failed" =>
        /\ pc = "Failed"
        /\ error = <<"Search failed: ", "Failed to get namespaces: ", "cause">>
        /\ Len(in.namespaces) = 0
        /\ targetNamespaces = <<>>
        /\ calls = <<>>
        /\ results = <<>>
        /\ output = <<>>

C3_Witness == discovery = "failed" /\ pc = "Failed" /\ namespaceCalls = 1

(***************************************************************************)
(* C4.  A listing call that fails gives an empty list for its (kind,       *)
(* namespace), is not called again, and never fails the search: the other  *)
(* pairs are still processed (unless the limit is reached) and the search  *)
(* ends in Ranked with nothing from the failed pair.                       *)
(***************************************************************************)
C4_FailedCallGivesNothing ==
    \* the namespace-level result of a failed call is the empty list
    /\ \A n \in 1..Len(batch) : batch[n].failed => batch[n].state = "done" /\ batch[n].results = <<>>
    \* no match of a failed pair is accumulated or returned
    /\ (NoDuplicates(kinds) /\ NoDuplicates(spaces)) =>
          \A r \in Range(results) \cup Range(output) : <<r.resourceType, r.namespace>> \notin failed
    \* each step of the loops issues one call, in loop order: none is repeated
    /\ Len(calls) <= Len(kinds) * Len(spaces)
    /\ \A m \in 1..Len(calls) : calls[m] = LoopUnit(m)
    \* a failure never fails the search, and a failed call counts as completed
    /\ failed # {} => pc # "Failed" /\ error = <<>>
    \* at the end every pair was called, unless the limit was reached first
    /\ (pc = "Ranked" /\ failed # {} /\ ~LimitReached(results, in.limit)) =>
          Len(calls) = Len(kinds) * Len(spaces)

\* the call for pods in prod failed, and a match found in dev is returned
C4_Witness ==
    /\ pc = "Ranked"
    /\ failed = {<<"pods", ns_prod>>}
    /\ \E r \in Range(output) : r.resourceType = "pods" /\ r.namespace = ns_dev
    /\ \E m \in 1..Len(calls) : calls[m] = <<"services", ns_prod>>


(***************************************************************************)
(* C5.  With searchMode auto the strategy is a function of the query:      *)
(* '=' with one of 'metadata.', 'status.', 'spec.' gives fields; '='       *)
(* without them gives labels; '*' or '?' without '=' gives exact; none of  *)
(* '=', '*', '?' gives fuzzy.                                              *)
(***************************************************************************)
C5_AutoStrategyByQuery ==
    (pc = "Classified" /\ in.searchMode = "auto") =>
        LET query == in.query
            hasEq == "=" \in Range(query)
            hasWildcard == "*" \in Range(query) \/ "?" \in Range(query)
            hasPath == \E token \in {str_metadata_dot, str_status_dot, str_spec_dot} :
                          \E at \in 1..Len(query) : OccursAt(query, token, at)
        IN /\ strategy.selector = query
           /\ strategy.type \in {"fuzzy", "exact", "labels", "fields"}
           /\ (hasEq /\ hasPath) => strategy.type = "fields"
           /\ (hasEq /\ ~hasPath) => strategy.type = "labels"
           /\ (hasWildcard /\ ~hasEq) => strategy.type = "exact"
           /\ (~hasEq /\ ~hasWildcard) => strategy.type = "fuzzy"

\* a query with '=', a path keyword and a wildcard is a field selector
C5_Witness ==
    /\ pc = "Classified"
    /\ in.searchMode = "auto"
    /\ strategy.type = "fields"
    /\ "*" \in Range(in.query)

(***************************************************************************)
(* C6 to C10 speak of the unit a call of the batch has completed: the      *)
(* namespace-level results of slot n, for the kind of the outer loop.      *)
(***************************************************************************)
Completed(n) == pc = "Fetching" /\ batch[n].state = "done" /\ ~batch[n].failed

\* the results of a list that are about the resource of that name
ResultsFor(list, name) == SelectSeq(list, LAMBDA r : r.resource.name = name)

\* the pods of prod are searched for "webapp" with moderate tolerance, and
\* two more results fit under the limit when the call completes
WebappUnit(n) ==
    /\ Completed(n)
    /\ kinds[k] = "pods"
    /\ batch[n].namespace = ns_prod
    /\ in.query = q_webapp
    /\ in.fuzzyTolerance = "moderate"
    /\ strategy.type = "fuzzy"
    /\ in.limit - Len(results) * Scale > Scale

SubstringHit == [score |-> Score(1, 1), reason |-> Reason("exact substring match in name", <<>>)]
WordBoundaryHit == [score |-> Score(8, 10), reason |-> Reason("word boundary match in name", <<>>)]

\* the unit returns name exactly once, with the score and reason of hit
ReturnedAs(list, name, hit) ==
    /\ Len(ResultsFor(list, name)) = 1
    /\ ScoreEQ(ResultsFor(list, name)[1].matchScore, hit.score)
    /\ ResultsFor(list, name)[1].matchReason = hit.reason

(***************************************************************************)
(* C6.  Original statement: for query "webapp" with moderate tolerance     *)
(* over webapp-1, my-webapp-svc and backend in one unit, webapp-1 is       *)
(* returned with score 1.0 (substring), my-webapp-svc with score 0.8       *)
(* (word-boundary match), and backend is absent.                           *)
(***************************************************************************)
C6_WordBoundaryScenario ==
    \A n \in 1..Len(batch) : WebappUnit(n) =>
        /\ ReturnedAs(batch[n].results, name_webapp_1, SubstringHit)
        /\ ReturnedAs(batch[n].results, name_my_webapp_svc, WordBoundaryHit)
        /\ ResultsFor(batch[n].results, name_backend) = <<>>

\* C6, amended: webapp-1 and my-webapp-svc both contain the query and are
\* both returned with score 1.0 as exact substring matches in the name;
\* backend is absent; and these two are what a search of that one unit
\* returns.
C6_SubstringScenario ==
    /\ \A n \in 1..Len(batch) : WebappUnit(n) =>
          /\ ReturnedAs(batch[n].results, name_webapp_1, SubstringHit)
          /\ ReturnedAs(batch[n].results, name_my_webapp_svc, SubstringHit)
          /\ ResultsFor(batch[n].results, name_backend) = <<>>
          /\ Len(batch[n].results) = 2
    /\ ( /\ pc = "Ranked" /\ in.query = q_webapp /\ in.fuzzyTolerance = "moderate" /\ strategy.type = "fuzzy"
         /\ kinds = <<"pods">> /\ spaces = <<ns_prod>> /\ failed = {} /\ in.limit > Scale ) =>
          /\ ReturnedAs(output, name_webapp_1, SubstringHit)
          /\ ReturnedAs(output, name_my_webapp_svc, SubstringHit)
          /\ Len(output) = 2

\* the call for the pods of prod has completed with the two matches
C6_Witness ==
    \E n \in 1..Len(batch) :
        /\ WebappUnit(n)
        /\ Len(batch[n].results) = 2
        /\ Includes(name_my_webapp_svc, in.query)

\* a label of the resource whose text, lowercased, contains the lowercased query
LabelHits(resource, query) ==
    {l \in 1..Len(resource.labels) :
        Includes(ToLowerCase(resource.labels[l][1] \o <<"=">> \o resource.labels[l][2]), ToLowerCase(query))}

\* the deep scan of the unit of slot n stopped at its cap of min(3, budget)
DeepCapHit(n) ==
    \/ Len(batch[n].results) >= 3
    \/ Len(batch[n].results) * Scale >= in.limit - Len(results) * Scale

(***************************************************************************)
(* C7.  For query "env=prod" with searchMode auto the strategy is labels;  *)
(* a candidate with the label env: prod is matched with score 1.0 and the  *)
(* reason "label match (env=prod)"; the comparison is a case-insensitive   *)
(* substring test of the query against each key=value pair: every result   *)
(* has such a label and names it in its reason, and every candidate with   *)
(* such a label is a result unless the cap of the unit was reached.        *)
(***************************************************************************)
C7_LabelQueryMatchesLabels ==
    (in.query = q_env_prod /\ in.searchMode = "auto") =>
        /\ pc \in {"ForEachKind", "ForEachBatch", "Fetching", "LimitReachedOrExhausted"} => strategy.type = "labels"
        /\ \A n \in 1..Len(batch) : Completed(n) =>
              LET candidates == ClusterItems(kinds[k], batch[n].namespace)
                  found == batch[n].results
              IN /\ \A r \in Range(found) :
                        /\ r.matchScore = Score(1, 1)
                        /\ r.matchReason.template = "label match (${key}=${value})"
                        /\ \E l \in LabelHits(r.resource, in.query) :
                              r.matchReason.arg = r.resource.labels[l][1] \o <<"=">> \o r.resource.labels[l][2]
                 /\ \A c \in 1..Len(candidates) :
                        LabelHits(candidates[c], in.query) # {} =>
                            \/ Len(ResultsFor(found, candidates[c].name)) = 1
                            \/ DeepCapHit(n)
                 /\ (kinds[k] = "pods" /\ batch[n].namespace = ns_prod /\ ~DeepCapHit(n)) =>
                        /\ Len(ResultsFor(found, name_webapp_1)) = 1
                        /\ ResultsFor(found, name_webapp_1)[1].matchReason.arg = q_env_prod

\* the pod api of dev, labelled Env: PROD, is returned for "env=prod", and so
\* is the pod webapp-1 of prod, labelled env: prod
C7_Witness ==
    /\ pc = "Ranked"
    /\ in.query = q_env_prod
    /\ in.searchMode = "auto"
    /\ strategy.type = "labels"
    /\ Len(ResultsFor(output, name_api)) = 1
    /\ Len(ResultsFor(output, name_webapp_1)) = 1
    /\ ResultsFor(output, name_webapp_1)[1].matchScore = Score(1, 1)

\* kube-system, default, or a name that starts with kube-
NamedSystem(ns) == ns = ns_kube_system \/ ns = ns_default \/ SubSeq(ns, 1, Min2(5, Len(ns))) = <<"k", "u", "b", "e", "-">>

\* the namespaces the search iterates over: what the resolver returned, the
\* prioritized list of the loops, and the namespaces of the calls issued
Iterated == Range(targetNamespaces) \cup Range(spaces) \cup {calls[m][2] : m \in 1..Len(calls)}

(***************************************************************************)
(* C8.  Original statement: with excludeSystemNamespaces = true the        *)
(* namespaces the search iterates over never contain kube-system, default  *)
(* or a name that starts with kube-.                                       *)
(***************************************************************************)
C8_NoSystemNamespace == in.excludeSystemNamespaces => \A ns \in Iterated : ~NamedSystem(ns)

\* C8, amended: the same, when no explicit namespace set is supplied (an
\* explicit set is iterated over as it is, system namespaces included).
C8_NoSystemNamespaceDiscovered ==
    (in.excludeSystemNamespaces /\ Len(in.namespaces) = 0) => \A ns \in Iterated : ~NamedSystem(ns)

\* the listing of the cluster's namespaces returned, and the search ran over
\* what the exclusion left of it
C8_Witness ==
    /\ in.excludeSystemNamespaces
    /\ Len(in.namespaces) = 0
    /\ discovery = "returned"
    /\ targetNamespaces = <<ns_prod, ns_dev>>
    /\ Len(calls) > 0
    /\ pc = "Ranked"

(***************************************************************************)
(* C9.  A non-empty explicit namespace set is what the resolver returns,   *)
(* same elements in the same order: no namespace-listing call is issued,   *)
(* and neither the exclusion of system namespaces nor namespacePattern     *)
(* alters it.                                                              *)
(***************************************************************************)
C9_ExplicitSetUnchanged ==
    Len(in.namespaces) > 0 =>
        /\ namespaceCalls = 0
        /\ discovery = "none"
        /\ pc \notin {"AwaitNamespaces"}
        /\ pc \notin {"NotStarted", "Validated", "Failed"} => targetNamespaces = in.namespaces

\* an explicit set with kube-system in it, under the exclusion and a pattern
\* that only prod matches, was searched as it is
C9_Witness ==
    /\ in.namespaces = <<ns_kube_system, ns_prod, ns_dev>>
    /\ in.excludeSystemNamespaces
    /\ in.namespacePattern = p_pro_star
    /\ targetNamespaces = in.namespaces
    /\ \E m \in 1..Len(calls) : calls[m][2] = ns_kube_system
    /\ pc = "Ranked"

(***************************************************************************)
(* C10.  When resourceTypes contains the kind "namespaces", no listing     *)
(* call is issued for a kind named namespaces, and when it is the only     *)
(* kind the result is what the matching of searchNamespaces gives for the  *)
(* resolved namespace names.                                               *)
(***************************************************************************)
C10_NamespaceOnlySearch ==
    (\E t \in 1..Len(in.resourceTypes) : in.resourceTypes[t] = "namespaces") =>
        /\ \A m \in 1..Len(calls) : calls[m][1] # "namespaces"
        /\ (pc = "Ranked" /\ in.resourceTypes = <<"namespaces">>) =>
              LET matched == searchNamespaces(in.query, targetNamespaces,
                                              determineSearchStrategy(in.query, in.searchMode),
                                              getFuzzyConfig(in.fuzzyTolerance))
              IN {<<r.resource.name, r.matchScore>> : r \in Range(output)}
                     \subseteq {<<r.name, r.matchScore>> : r \in Range(matched)}

(***************************************************************************)
(* C11.  With recent = true every listing call carries a filter on the     *)
(* creation time, so that no object created before yesterday is among the  *)
(* results; with recent = false no filter is sent.                         *)
(***************************************************************************)
C11_RecentFiltersListing ==
    /\ \A m \in 1..Len(calls) :
          (ListingArguments(calls[m][1], calls[m][2], in.recent).fieldSelector # "undefined") <=> in.recent
    /\ in.recent => \A r \in Range(results) \cup Range(output) : r.resource.creationTimestamp >= Yesterday

(***************************************************************************)
(* C12.  Under the fuzzy strategy with includeAnnotations = true, a        *)
(* candidate without a name or label match whose annotation text contains  *)
(* the query is accepted; with includeAnnotations = false it is not.       *)
(***************************************************************************)
C12_AnnotationsMatched ==
    \A n \in 1..Len(batch) :
        ( /\ Completed(n) /\ strategy.type = "fuzzy" /\ in.query = q_webapp
          /\ kinds[k] = "deployments" /\ batch[n].namespace = ns_prod
          /\ in.limit - Len(results) * Scale > 2 * Scale ) =>
            (Len(ResultsFor(batch[n].results, name_redis_cache)) = 1 <=> in.includeAnnotations)

(***************************************************************************)
(* C13.  The returned list holds the first results of the accumulator,     *)
(* ordered by the sort key: by name, non-decreasing in the lexicographic   *)
(* order of the characters; by age, non-increasing in creation time; by    *)
(* namespace, non-decreasing; by relevance, non-increasing in matchScore   *)
(* with results of equal score in the order of their accumulation.         *)
(***************************************************************************)
C13_OrderedBySortKey ==
    pc = "Ranked" =>
        LET CodePoints == <<"-", "0", "1", "2", "3", "4", "5", "6", "7", "8", "9",
                            "a", "b", "c", "d", "e", "f", "g", "h", "i", "j", "k", "l", "m",
                            "n", "o", "p", "q", "r", "s", "t", "u", "v", "w", "x", "y", "z">>
            Code(c) == CHOOSE at \in 1..Len(CodePoints) : CodePoints[at] = c
            LexLE(a, b) ==
                \/ a = b
                \/ \E p \in 1..(Len(b)) :
                      /\ p <= Len(a) + 1
                      /\ SubSeq(a, 1, p - 1) = SubSeq(b, 1, p - 1)
                      /\ (p = Len(a) + 1 \/ Code(a[p]) < Code(b[p]))
            cut == SubSeq(results, 1, Len(output))
            At(r) == CHOOSE at \in 1..Len(cut) : cut[at] = r
        IN /\ Len(output) <= Len(results)
           /\ \A at \in 1..Len(cut) : Cardinality({o \in 1..Len(output) : output[o] = cut[at]})
                                        = Cardinality({c \in 1..Len(cut) : cut[c] = cut[at]})
           /\ \A x, y \in 1..Len(output) : x < y =>
                 CASE in.sortBy = "name" -> LexLE(output[x].resource.name, output[y].resource.name)
                   [] in.sortBy = "age" -> output[x].resource.creationTimestamp >= output[y].resource.creationTimestamp
                   [] in.sortBy = "namespace" -> LexLE(output[x].namespace, output[y].namespace)
                   [] OTHER -> /\ output[x].matchScore[1] * output[y].matchScore[2]
                                     >= output[y].matchScore[1] * output[x].matchScore[2]
                               /\ ( /\ output[x].matchScore[1] * output[y].matchScore[2]
                                         = output[y].matchScore[1] * output[x].matchScore[2]
                                    /\ NoDuplicates(cut) ) => At(output[x]) < At(output[y])

\* a search by name, by age or by relevance whose accumulator was not in the
\* order of the key, with two results of equal score in the relevance case
C13_Witness ==
    /\ pc = "Ranked"
    /\ Len(output) >= 3
    /\ output # SubSeq(results, 1, Len(output))
    /\ in.sortBy \in {"name", "age", "relevance"}
    /\ in.sortBy = "relevance" => \E x, y \in 1..Len(output) : x # y /\ output[x].matchScore = output[y].matchScore

(***************************************************************************)
(* C14.  levenshteinDistance(s, s) = 0, the distance is symmetric, the     *)
(* distance from the empty string to s is the length of s, and the         *)
(* distance is the least number of insertions, deletions and substitutions *)
(* of one character that turn the first string into the second.            *)
(***************************************************************************)
C14_LevenshteinIsEditDistance ==
    pc = "Measured" =>
        LET a == input.query
            b == input.name
            alphabet == Range(a) \cup Range(b)
            longest == Max2(Len(a), Len(b))
            Fits(s) == Len(s) <= longest
            Edits(s) ==
                {SubSeq(s, 1, p - 1) \o SubSeq(s, p + 1, Len(s)) : p \in 1..Len(s)}
                \cup {SubSeq(s, 1, p - 1) \o <<c>> \o SubSeq(s, p + 1, Len(s)) : p \in 1..Len(s), c \in alphabet}
                \cup {t \in {SubSeq(s, 1, p) \o <<c>> \o SubSeq(s, p + 1, Len(s)) : p \in 0..Len(s), c \in alphabet} : Fits(t)}
            \* the least number of edits after which b is among the strings reached
            RECURSIVE LeastEdits(_, _)
            LeastEdits(reached, n) ==
                IF b \in reached THEN n
                ELSE LeastEdits(reached \cup UNION {Edits(s) : s \in reached}, n + 1)
        IN /\ output[1] = LeastEdits({a}, 0)
           /\ a = b => output[1] = 0
           /\ a = <<>> => output[1] = Len(b)
           /\ output[1] = levenshteinDistance(b, a)

\* two strings of different lengths that need a deletion and a substitution
C14_Witness ==
    /\ pc = "Measured"
    /\ input.query = <<"a", "b", "a">>
    /\ input.name = <<"b", "b">>
    /\ output = <<2>>

(***************************************************************************)
(* C15.  The pattern made from a wildcard string is case-insensitive, its  *)
(* '*' matches any run of characters, its '?' any single character and its *)
(* '.' only a dot: 'a*c' and 'a?c' match 'abc', 'a.c' matches 'a.c' and    *)
(* not 'abc', 'A*C' matches 'abc'.                                         *)
(***************************************************************************)
C15_WildcardsMatch ==
    pc = "Tested" =>
        LET Case(pattern, name) == input.query = pattern /\ input.name = name
        IN /\ Case(<<"a", "*", "c">>, <<"a", "b", "c">>) => output = <<TRUE>>
           /\ Case(<<"a", "*", "c">>, <<"a", "b", "b", "c">>) => output = <<TRUE>>
           /\ Case(<<"a", "?", "c">>, <<"a", "b", "c">>) => output = <<TRUE>>
           /\ Case(<<"a", "?", "c">>, <<"a", "c">>) => output = <<FALSE>>
           /\ Case(<<"a", ".", "c">>, <<"a", ".", "c">>) => output = <<TRUE>>
           /\ Case(<<"a", ".", "c">>, <<"a", "b", "c">>) => output = <<FALSE>>
           /\ Case(<<"A", "*", "C">>, <<"a", "b", "c">>) => output = <<TRUE>>

(***************************************************************************)
(* C16.  Original statement, for a whole positive limit: wherever          *)
(* streamingSearch compares the accumulator with the limit, the            *)
(* accumulator is no longer than the limit.                                *)
(***************************************************************************)
C16_AccumulatorWithinLimit ==
    ( /\ in.limit > 0 /\ in.limit % Scale = 0
      /\ pc \in {"ForEachKind", "ForEachBatch", "Fetching", "LimitReachedOrExhausted"} ) =>
        Len(results) * Scale <= in.limit

\* C16, amended: the accumulator is below the limit whenever a batch is
\* about to be issued or is in flight; the merge of one namespace's results
\* can carry it past the limit, so that what was accumulated before the last
\* namespace merged is below the limit, and for a positive limit the
\* accumulator stays below twice the limit plus one.
C16_AccumulatorBelowLimitUntilLastMerge ==
    /\ pc \in {"ForEachBatch", "Fetching"} => Len(results) * Scale < in.limit
    /\ pc = "ForEachKind" => (Len(results) * Scale < in.limit \/ results = <<>>)
    /\ (results # <<>> /\ NoDuplicates(kinds) /\ NoDuplicates(spaces)) =>
          LET last == results[Len(results)]
              before == SelectSeq(results, LAMBDA r : r.resourceType # last.resourceType \/ r.namespace # last.namespace)
          IN /\ Len(before) * Scale < in.limit
             /\ before = SubSeq(results, 1, Len(before))
    /\ in.limit > 0 => Len(results) * Scale < 2 * in.limit + Scale

\* the accumulator holds more results than a whole limit allows
C16_Witness ==
    /\ pc = "LimitReachedOrExhausted"
    /\ in.limit > 0
    /\ in.limit % Scale = 0
    /\ Len(results) * Scale > in.limit

\* the accumulator reached the limit at the end of a batch
ReachedAtBatchEnd == results # <<>> /\ Len(results) * Scale >= in.limit

(***************************************************************************)
(* C17.  Once the accumulator has reached the limit at the end of a batch, *)
(* no listing call is issued any more, the accumulator stays as it is, and *)
(* no state of the scan is entered again: the search can only finish.      *)
(***************************************************************************)
C17_EarlyExit ==
    /\ [](ReachedAtBatchEnd => (pc \in {"LimitReachedOrExhausted", "Ranked"} /\ batch = <<>>))
    /\ [][ReachedAtBatchEnd => /\ calls' = calls
                               /\ results' = results
                               /\ pc' \in {"LimitReachedOrExhausted", "Ranked"}]_vars

\* the search ended on the limit with kinds or namespaces left unsearched
C17_Witness ==
    /\ pc = "Ranked"
    /\ ReachedAtBatchEnd
    /\ Len(calls) > 0
    /\ Len(calls) < Len(kinds) * Len(spaces)
    /\ i + BatchSize < Len(spaces)

\* the step of lines 516-522: the batch is awaited and merged
MergeStep == batch # <<>> /\ batch' = <<>>

(***************************************************************************)
(* C18.  Kinds and batches are processed one after the other with a        *)
(* barrier per batch: the calls in flight are those of one batch of one    *)
(* kind, at most BatchSize namespaces (the 50 of the code) in the order of *)
(* the prioritized list; a call is issued only when no earlier call is in  *)
(* flight, and a batch is left only when each of its calls has completed.  *)
(***************************************************************************)
C18_BarrierPerBatch ==
    /\ [](pc # "Fetching" => batch = <<>>)
    /\ [](pc = "Fetching" =>
             /\ Len(batch) \in 1..BatchSize
             /\ Len(calls) >= Len(batch)
             /\ \A n \in 1..Len(batch) :
                   /\ i + n <= Len(spaces)
                   /\ batch[n].namespace = spaces[i + n]
                   /\ calls[Len(calls) - Len(batch) + n] = <<kinds[k], spaces[i + n]>>)
    /\ [][calls' # calls => /\ batch = <<>>
                            /\ \A n \in 1..Len(batch') : batch'[n].state = "pending"
                            /\ Len(calls') = Len(calls) + Len(batch')
                            /\ SubSeq(calls', 1, Len(calls)) = calls]_vars
    /\ [][MergeStep => \A n \in 1..Len(batch) : batch[n].state = "done"]_vars
    /\ [][(k' # k \/ i' # i) => \A n \in 1..Len(batch) : batch[n].state = "done"]_vars

\* in the second batch of a kind, one call has completed and one is in flight
C18_Witness ==
    /\ pc = "Fetching"
    /\ i > 0
    /\ \E n, m \in 1..Len(batch) : batch[n].state = "done" /\ batch[m].state = "pending"

\* what the call for the n-th namespace of the current batch leaves, from
\* the listing response alone
UnitOf(n) ==
    NamespaceResults(IF <<kinds[k], spaces[i + n]>> \in failed THEN <<>> ELSE ClusterItems(kinds[k], spaces[i + n]),
                     kinds[k], spaces[i + n], results)

\* acc with the units from n on pushed in the order of the prioritized list,
\* up to the unit with which the limit is reached
RECURSIVE InNamespaceOrder(_, _)
InNamespaceOrder(acc, n) ==
    IF n > Len(batch) THEN acc
    ELSE IF Len(acc \o UnitOf(n)) * Scale >= in.limit THEN acc \o UnitOf(n)
    ELSE InNamespaceOrder(acc \o UnitOf(n), n + 1)

(***************************************************************************)
(* C19.  The results of a batch are merged in the order of the prioritized *)
(* namespace list, whatever the order in which its calls completed: what a *)
(* call leaves for its namespace depends on the listing response alone,    *)
(* and the merge gives the accumulator that this order gives.              *)
(***************************************************************************)
C19_MergeInNamespaceOrder ==
    /\ [](\A n \in 1..Len(batch) :
             (batch[n].state = "done" /\ NoDuplicates(kinds) /\ NoDuplicates(spaces)) =>
                 batch[n].results = UnitOf(n))
    /\ [][(MergeStep /\ NoDuplicates(kinds) /\ NoDuplicates(spaces)) => results' = InNamespaceOrder(results, 1)]_vars

\* the call of the second namespace of a batch completed first, and both
\* namespaces have results to merge
C19_Witness ==
    /\ pc = "Fetching"
    /\ Len(batch) = 2
    /\ batch[1].order = 2
    /\ batch[2].order = 1
    /\ batch[1].results # <<>>
    /\ batch[2].results # <<>>
    /\ Len(results \o batch[1].results) * Scale < in.limit

\* the results of the slots from n on, one after the other
RECURSIVE AllResultsFrom(_)
AllResultsFrom(n) == IF n > Len(batch) THEN <<>> ELSE batch[n].results \o AllResultsFrom(n + 1)

(***************************************************************************)
(* C20.  Original statement: in the batch during which the limit is        *)
(* reached every call in flight is awaited and the results of every        *)
(* namespace of the batch are merged into the accumulator.                 *)
(***************************************************************************)
C20_WholeBatchMerged ==
    [][MergeStep => /\ \A n \in 1..Len(batch) : batch[n].state = "done"
                    /\ results' = results \o AllResultsFrom(1)]_vars

\* C20, amended: every call in flight is awaited; the results are merged in
\* batch order up to and including the namespace with which the accumulator
\* reaches the limit, and the results of the namespaces after it are left
\* out; the list cut to the limit is the one that merging them all gives.
C20_BatchAwaitedMergedToLimit ==
    [][MergeStep =>
          LET all == results \o AllResultsFrom(1)
              Upto(n) == SubSeq(all, 1, Len(all) - Len(AllResultsFrom(n + 1)))
              Cut(list) == SubSeq(list, 1, Min2(Len(list), in.limit \div Scale))
          IN /\ \A n \in 1..Len(batch) : batch[n].state = "done"
             /\ \E last \in 1..Len(batch) :
                   /\ results' = Upto(last)
                   /\ last < Len(batch) => Len(Upto(last)) * Scale >= in.limit
                   /\ \A n \in 1..(last - 1) : Len(Upto(n)) * Scale < in.limit
             /\ Cut(results') = Cut(all)]_vars

\* every call of the batch has completed, the first namespace alone reaches
\* the limit, and the second has results too
C20_Witness ==
    /\ pc = "Fetching"
    /\ Len(batch) = 2
    /\ \A n \in 1..Len(batch) : batch[n].state = "done"
    /\ Len(results \o batch[1].results) * Scale >= in.limit
    /\ batch[2].results # <<>>

\* every result the search holds: those of the calls of the batch, the
\* accumulator and the returned list
Produced == Range(results) \cup Range(output) \cup UNION {Range(batch[n].results) : n \in 1..Len(batch)}

\* the reason the quick scan gives
QuickReason == Reason("exact substring match in name", <<>>)

(***************************************************************************)
(* C21.  The quick scan (case-insensitive substring test of the query      *)
(* against the name, score 1.0, reason "exact substring match in name") is *)
(* applied for the fuzzy strategy only: under the exact, labels and fields *)
(* strategies no result carries that reason.                               *)
(***************************************************************************)
C21_QuickScanForFuzzyOnly ==
    strategy.type \in {"exact", "labels", "fields"} => \A r \in Produced : r.matchReason # QuickReason

\* the results of a list that the quick scan gave, and those the deep scan gave
QuickOf(list) == SelectSeq(list, LAMBDA r : r.matchReason = QuickReason)
DeepOf(list) == SelectSeq(list, LAMBDA r : r.matchReason # QuickReason)

\* what is left of the limit while the calls of the batch run (scaled)
Budget == in.limit - Len(results) * Scale

(***************************************************************************)
(* C22.  For a limit that is an integer, in the results of one (kind,      *)
(* namespace): the quick scan's results come first and are at most         *)
(* min(10, budget), budget being what the accumulator leaves of the limit; *)
(* the deep scan gives results only when the quick scan gave fewer than 5, *)
(* only for candidates the quick scan did not accept, and at most          *)
(* min(3, budget) of them; no candidate appears twice, and every result is *)
(* a candidate of the listing.                                             *)
(***************************************************************************)
C22_TwoScansBounded ==
    \A n \in 1..Len(batch) : (Completed(n) /\ in.limit % Scale = 0) =>
        LET found == batch[n].results
            quick == QuickOf(found)
            deep == DeepOf(found)
            candidates == ClusterItems(kinds[k], batch[n].namespace)
        IN /\ found = quick \o deep
           /\ Len(quick) * Scale <= Min2(10 * Scale, Budget)
           /\ \A q \in 1..Len(quick) : Includes(ToLowerCase(quick[q].resource.name), ToLowerCase(in.query))
           /\ deep # <<>> => Len(quick) < 5
           /\ Len(deep) * Scale <= Min2(3 * Scale, Budget)
           /\ \A d \in 1..Len(deep), q \in 1..Len(quick) : deep[d].resource.name # quick[q].resource.name
           /\ \A a, b \in 1..Len(found) : a # b => found[a].resource.name # found[b].resource.name
           /\ \A a \in 1..Len(found) : \E c \in 1..Len(candidates) : candidates[c] = found[a].resource

\* the config maps of dev searched for "web": the quick scan accepted the two
\* named web-0 and web-1, the deep scan three of the eleven that its label
\* rule accepts
C22_Witness ==
    \E n \in 1..Len(batch) :
        /\ Completed(n)
        /\ kinds[k] = "configmaps"
        /\ in.query = q_web
        /\ strategy.type = "fuzzy"
        /\ Budget > 5 * Scale
        /\ Len(QuickOf(batch[n].results)) = 2
        /\ Len(DeepOf(batch[n].results)) = 3
        /\ Cardinality({c \in 1..Len(ConfigMaps) : LabelHits(ConfigMaps[c], in.query) # {}}) > 3

(***************************************************************************)
(* C23.  Every result accepted by the edit-distance rule has a distance    *)
(* that is at most maxDistance and a recorded matchScore that equals       *)
(* (1 - distance / max(len(query), len(name))) * 0.9 and is at least the   *)
(* minScore of the selected tolerance (strict 0.8, moderate 0.4, loose     *)
(* 0.2).                                                                   *)
(***************************************************************************)
C23_EditDistanceScore ==
    \A r \in Produced : r.matchReason.template = "fuzzy name match (distance: ${distance})" =>
        LET searchConfig == getFuzzyConfig(in.fuzzyTolerance)
            longest == Max2(Len(in.query), Len(r.resource.name))
            distance == r.levenshteinDistance
        IN /\ distance = levenshteinDistance(ToLowerCase(in.query), ToLowerCase(r.resource.name))
           /\ distance <= searchConfig.maxDistance
           /\ r.matchScore[1] * (longest * 10) = ((longest - distance) * 9) * r.matchScore[2]
           /\ r.matchScore[1] * searchConfig.minScore[2] >= searchConfig.minScore[1] * r.matchScore[2]

\* the rules of the fuzzy deep scan, in the order in which they are tried
FuzzyRules == <<"edit distance", "word boundary", "acronym", "label">>

\* the separators of a name, and its tokens between them
Tokens(name, separators) ==
    LET cuts == <<0>> \o SelectSeq([p \in 1..Len(name) |-> p], LAMBDA p : name[p] \in separators) \o <<Len(name) + 1>>
    IN [t \in 1..(Len(cuts) - 1) |-> SubSeq(name, cuts[t] + 1, cuts[t + 1] - 1)]

\* the candidate passes the test of the rule of that place, taken on its own
RuleAccepts(rule, resource) ==
    LET query == ToLowerCase(in.query)
        name == ToLowerCase(resource.name)
        searchConfig == getFuzzyConfig(in.fuzzyTolerance)
        longest == Max2(Len(query), Len(name))
        distance == levenshteinDistance(query, name)
        tokens == Tokens(name, {"-", "_", " "})
        initials == Tokens(name, {"-"})
    IN CASE rule = 1 -> /\ Abs(Len(query) - Len(name)) <= searchConfig.maxDistance
                        /\ distance <= searchConfig.maxDistance
                        /\ ScoreAtLeast(distance, longest, searchConfig.minScore)
         [] rule = 2 -> /\ \E p \in 1..Len(name) : name[p] \in {"-", "_"}
                        /\ \E t \in 1..Len(tokens) : Includes(tokens[t], query)
         [] rule = 3 -> /\ \E p \in 1..Len(name) : name[p] = "-"
                        /\ Len(query) <= 4
                        /\ Includes([t \in 1..Len(SelectSeq(initials, LAMBDA w : w # <<>>)) |->
                                        SelectSeq(initials, LAMBDA w : w # <<>>)[t][1]], query)
         [] OTHER -> in.includeLabels /\ LabelHits(resource, in.query) # {}

\* the score the rule of that place gives the candidate
RuleScore(rule, resource) ==
    LET longest == Max2(Len(in.query), Len(resource.name))
        distance == levenshteinDistance(ToLowerCase(in.query), ToLowerCase(resource.name))
    IN CASE rule = 1 -> Score((longest - distance) * 9, longest * 10)
         [] rule = 2 -> Score(8, 10)
         [] rule = 3 -> Score(6, 10)
         [] OTHER -> Score(7, 10)

RuleReason(rule) ==
    CASE rule = 1 -> "fuzzy name match (distance: ${distance})"
      [] rule = 2 -> "word boundary match in name"
      [] rule = 3 -> "acronym match"
      [] OTHER -> "label match (${key}=${value})"

\* the results the deep scan gave for the unit of slot n under the fuzzy strategy
FuzzyDeepResults(n) ==
    IF Completed(n) /\ strategy.type = "fuzzy" THEN Range(DeepOf(batch[n].results)) ELSE {}

(***************************************************************************)
(* C24.  Original statement: for each candidate the matcher keeps a single *)
(* match, and it is the best-scoring one among the rules that match that   *)
(* candidate (edit distance, word boundary 0.8, acronym 0.6, label 0.7),   *)
(* ties broken by first-found order.                                       *)
(***************************************************************************)
C24_BestScoringKept ==
    \A n \in 1..Len(batch) : \A r \in FuzzyDeepResults(n) :
        /\ Len(ResultsFor(batch[n].results, r.resource.name)) = 1
        /\ \E kept \in 1..Len(FuzzyRules) :
              /\ RuleAccepts(kept, r.resource)
              /\ r.matchReason.template = RuleReason(kept)
              /\ ScoreEQ(r.matchScore, RuleScore(kept, r.resource))
              /\ \A other \in 1..Len(FuzzyRules) : RuleAccepts(other, r.resource) =>
                    /\ ScoreGE(r.matchScore, RuleScore(other, r.resource))
                    /\ ScoreEQ(r.matchScore, RuleScore(other, r.resource)) => kept <= other

\* C24, amended: for each candidate the matcher keeps a single match, that
\* of the first rule, in the order edit distance, word boundary, acronym,
\* label, whose test the candidate passes; the rules after it are not tried,
\* whatever they would score.
C24_FirstMatchingRuleKept ==
    \A n \in 1..Len(batch) : \A r \in FuzzyDeepResults(n) :
        /\ Len(ResultsFor(batch[n].results, r.resource.name)) = 1
        /\ \E kept \in 1..Len(FuzzyRules) :
              /\ RuleAccepts(kept, r.resource)
              /\ \A earlier \in 1..(kept - 1) : ~RuleAccepts(earlier, r.resource)
              /\ r.matchReason.template = RuleReason(kept)
              /\ ScoreEQ(r.matchScore, RuleScore(kept, r.resource))

\* the config map cfg-a0 was found for "ca" by its acronym, with score 0.6,
\* and has a label that contains the query
C24_Witness ==
    \E n \in 1..Len(batch) : \E r \in FuzzyDeepResults(n) :
        /\ in.query = q_ca
        /\ r.resource.name = <<"c", "f", "g", "-", "a", "0">>
        /\ r.matchReason.template = "acronym match"
        /\ r.matchScore = Score(6, 10)
        /\ RuleAccepts(4, r.resource)

(***************************************************************************)
(* C25.  The final output is the accumulated match set sorted by the sort  *)
(* key and then truncated to limit: under sortBy = relevance, no match     *)
(* that was merged into the accumulator but omitted from the output has a  *)
(* strictly higher matchScore than a match that is returned.               *)
(***************************************************************************)
C25_BestOfAccumulatorReturned ==
    (pc = "Ranked" /\ in.sortBy = "relevance" /\ in.limit >= 0) =>
        /\ output = SliceToLimit(sortResults(results, in.sortBy), in.limit)
        /\ \A omitted \in Range(results) \ Range(output) : \A returned \in Range(output) :
              ~ScoreGT(omitted.matchScore, returned.matchScore)

(***************************************************************************)
(* C26.  The namespace list the resolver hands to the batch engine holds   *)
(* no name twice, for explicit and discovered sets alike, so within one    *)
(* invocation at most one listing call is issued for a (kind, namespace)   *)
(* pair named once in resourceTypes.                                       *)
(***************************************************************************)
C26_NamespacesDistinct ==
    /\ NoDuplicates(targetNamespaces)
    /\ NoDuplicates(spaces)
    /\ NoDuplicates(in.resourceTypes) => NoDuplicates(calls)

\* the two lists hold the same elements, each as often in one as in the other
IsPermutation(a, b) ==
    /\ Len(a) = Len(b)
    /\ \A x \in Range(a) \cup Range(b) :
          Cardinality({p \in 1..Len(a) : a[p] = x}) = Cardinality({p \in 1..Len(b) : b[p] = x})

\* the lowercased text contains the lowercased query's keyword
Mentions(text, keyword) == Includes(ToLowerCase(text), keyword)

\* the namespace contains the lowercased query, or shares one of the tokens
\* dev, prod, test, demo with it
Promoted(namespace) ==
    \/ Mentions(namespace, ToLowerCase(in.query))
    \/ \E token \in {<<"d", "e", "v">>, <<"p", "r", "o", "d">>, <<"t", "e", "s", "t">>, <<"d", "e", "m", "o">>} :
          Mentions(in.query, token) /\ Mentions(namespace, token)

\* the query holds a keyword of the kind
KeywordHit(kind) ==
    CASE kind = "pods" -> Mentions(in.query, <<"p", "o", "d">>) \/ Mentions(in.query, <<"c", "o", "n", "t", "a", "i", "n", "e", "r">>)
      [] kind = "services" -> Mentions(in.query, <<"s", "e", "r", "v", "i", "c", "e">>) \/ Mentions(in.query, <<"s", "v", "c">>)
      [] kind = "deployments" -> Mentions(in.query, <<"d", "e", "p", "l", "o", "y">>) \/ Mentions(in.query, <<"a", "p", "p">>)
      [] kind \in {"jobs", "cronjobs"} -> Mentions(in.query, <<"j", "o", "b">>)
      [] OTHER -> FALSE

\* the two prioritized lists have just been made, and no loop has run yet
Prioritized == pc = "ForEachKind" /\ k = 1

ScanState(at) == IF at \in {"NotStarted", "Validated", "AwaitNamespaces"} THEN "NotStarted" ELSE at

\* the steps of the state machine; a search with no namespace to scan goes
\* from NamespacesResolved to Ranked with an empty list
ScanSteps ==
    {<<"NotStarted", "NotStarted">>, <<"NotStarted", "NamespacesResolved">>, <<"NotStarted", "Failed">>,
     <<"NamespacesResolved", "ForEachKind">>, <<"NamespacesResolved", "Ranked">>,
     <<"ForEachKind", "ForEachBatch">>, <<"ForEachKind", "LimitReachedOrExhausted">>,
     <<"ForEachBatch", "Fetching">>, <<"ForEachBatch", "ForEachKind">>, <<"ForEachBatch", "LimitReachedOrExhausted">>,
     <<"Fetching", "Fetching">>, <<"Fetching", "ForEachBatch">>, <<"Fetching", "LimitReachedOrExhausted">>,
     <<"LimitReachedOrExhausted", "Ranked">>}

(***************************************************************************)
(* C28.  When every listing call eventually completes, every invocation    *)
(* eventually reaches a terminal state, Ranked or Failed, and never leaves *)
(* it; it gets there by the steps NotStarted -> NamespacesResolved ->      *)
(* (ForEachKind: ForEachBatch: Fetching) -> LimitReachedOrExhausted ->     *)
(* Ranked; Failed is reached only from before NamespacesResolved, on an    *)
(* empty query or a failed namespace-listing call.                         *)
(***************************************************************************)
C28_ReachesOneTerminalState ==
    /\ <>(pc \in {"Ranked", "Failed"})
    /\ [][pc \notin {"Ranked", "Failed"}]_vars
    /\ [][ScanSteps \cap {<<ScanState(pc), ScanState(pc')>>} # {}]_vars
    /\ [](pc = "Failed" => (Len(Trim(input.query)) = 0 \/ discovery = "failed"))
    /\ [](pc = "Ranked" => (Len(Trim(input.query)) > 0 /\ discovery # "failed"))

\* a search that ran through more than one batch, one of whose calls
\* failed, has ended in Ranked
C28_Witness ==
    /\ pc = "Ranked"
    /\ discovery = "returned"
    /\ failed # {}
    /\ k > 1
    /\ Len(calls) > BatchSize

\* the quick scan of the unit of slot n stopped at its cap, and the deep
\* scan was skipped or had nothing left of the limit
QuickScanUsedBudget(n) ==
    /\ Len(QuickOf(batch[n].results)) * Scale >= Min2(10 * Scale, Budget)
    /\ Len(QuickOf(batch[n].results)) >= 5 \/ Budget - Len(QuickOf(batch[n].results)) * Scale <= 0

(***************************************************************************)
(* C29.  No result of streamingSearch carries the reason "word boundary    *)
(* match in name": a candidate one of whose name tokens contains the query *)
(* is returned by the quick scan with score 1.0 and the reason "exact      *)
(* substring match in name", or is not returned at all, and then the quick *)
(* scan stopped at its cap and the deep scan was skipped or ran with a     *)
(* budget of 0 or less.                                                    *)
(***************************************************************************)
C29_NoWordBoundaryResult ==
    /\ \A r \in Produced : r.matchReason.template # "word boundary match in name"
    /\ \A n \in 1..Len(batch) : Completed(n) =>
          \A c \in Range(ClusterItems(kinds[k], batch[n].namespace)) :
              RuleAccepts(2, c) =>
                  \/ ReturnedAs(batch[n].results, c.name, SubstringHit)
                  \/ ResultsFor(batch[n].results, c.name) = <<>> /\ QuickScanUsedBudget(n)

\* the pods of prod searched for "webapp" with limit 1: the quick scan took
\* webapp-1, and my-webapp-svc, whose token webapp contains the query, is
\* left to a deep scan with a budget of 0
C29_Witness ==
    \E n \in 1..Len(batch) :
        /\ Completed(n)
        /\ kinds[k] = "pods"
        /\ batch[n].namespace = ns_prod
        /\ in.query = q_webapp
        /\ strategy.type = "fuzzy"
        /\ in.limit = Scale
        /\ results = <<>>
        /\ ReturnedAs(batch[n].results, name_webapp_1, SubstringHit)
        /\ RuleAccepts(2, ClusterItems("pods", ns_prod)[2])
        /\ ResultsFor(batch[n].results, name_my_webapp_svc) = <<>>
        /\ Len(batch[n].results) = 1

\* the reason the field rule gives
FieldReason == Reason("field match (${strategy.selector})", in.query)

\* the object holds, at the path of those keys, a value whose text contains
\* the lowercased query: a string, or an object, whose text is [object Object]
HoldsQueryAt(resource, keys) ==
    \/ \E l \in Leaves(resource) : l[1] = keys /\ l[2] # <<>> /\ Includes(ToLowerCase(l[2]), ToLowerCase(in.query))
    \/ /\ \E l \in Leaves(resource) : IsProperPrefix(keys, l[1])
       /\ Includes(ToLowerCase(str_object_Object), ToLowerCase(in.query))

\* the query is path=value, and the object's field at path equals value
FieldEquals(resource) ==
    LET pieces == Split(in.query, {"="})
    IN /\ Len(pieces) = 2
       /\ \E l \in Leaves(resource) : l[1] = Split(pieces[1], {"."}) /\ l[2] = pieces[2]

(***************************************************************************)
(* C30.  Under the fields strategy the whole query is the dotted path and  *)
(* the text looked for: a result has the reason of the field rule only     *)
(* under that strategy, and only when the keys between the dots of the     *)
(* query lead to a value whose text contains the whole query; a candidate  *)
(* passing that test and not taken by the quick scan is returned with that *)
(* reason while the deep scan has budget; and for an auto-detected query   *)
(* path=value a candidate whose field at path equals value is not returned *)
(* with that reason.                                                       *)
(***************************************************************************)
C30_FieldRuleWholeQuery ==
    /\ \A r \in Produced : r.matchReason.template = FieldReason.template =>
          /\ strategy.type = "fields"
          /\ r.matchReason = FieldReason
          /\ ScoreEQ(r.matchScore, Score(1, 1))
          /\ HoldsQueryAt(r.resource, Split(in.query, {"."}))
          /\ ~(in.searchMode = "auto" /\ FieldEquals(r.resource))
    /\ \A n \in 1..Len(batch) : Completed(n) /\ strategy.type = "fields" =>
          \A c \in Range(ClusterItems(kinds[k], batch[n].namespace)) :
              HoldsQueryAt(c, Split(in.query, {"."})) /\ ~Includes(ToLowerCase(c.name), ToLowerCase(in.query)) =>
                  \/ \E r \in Range(batch[n].results) : r.resource = c /\ r.matchReason = FieldReason
                  \/ Len(DeepOf(batch[n].results)) * Scale >= Min2(3 * Scale, Budget - Len(QuickOf(batch[n].results)) * Scale)

\* the pods of prod were listed for the query status.phase=Running, which
\* auto-detection gives to the fields strategy; each of them has the phase
\* Running, and none is returned
C30_Witness ==
    \E n \in 1..Len(batch) :
        /\ Completed(n)
        /\ in.query = q_phase
        /\ in.searchMode = "auto"
        /\ strategy.type = "fields"
        /\ kinds[k] = "pods"
        /\ batch[n].namespace = ns_prod
        /\ Budget > 0
        /\ \A c \in Range(ClusterItems("pods", ns_prod)) : FieldEquals(c)
        /\ batch[n].results = <<>>

====
